---- MODULE Spec2Model ----
(***************************************************************************)
(* One invocation of one wrapper function of the example scripts against   *)
(* a remote service whose answers are chosen nondeterministically.         *)
(*                                                                         *)
(* Every action is one step of a wrapper: one remote call together with    *)
(* the local code that runs up to the next remote call (status test,       *)
(* sleep, return or raise).  The remote calls and the sleeps of the        *)
(* invocation are recorded in `trace`, error-level log lines and prints    *)
(* in `out`.  logger.info lines change nothing and are not recorded.       *)
(***************************************************************************)
EXTENDS Integers, Sequences, FiniteSets, TLC

VARIABLES
    fn,       \* the wrapper function being invoked
    pc,       \* position inside the wrapper
    outcome,  \* "running", "returned" or "raised"
    ret,      \* the value returned to the caller
    exc,      \* the exception raised to the caller
    status,   \* the local variable `status` of the polling loops
    local,    \* the other local the wrapper keeps (dataset ARN, last response)
    input,    \* the identifier argument the caller passes (ARN or ID)
    args,     \* the text arguments the caller passes (bucket, file names, file text)
    budget,   \* how many more answers that keep a loop going the environment gives
    trace,    \* remote calls and sleeps of this invocation, in order
    out,      \* logger.exception / logger.error / logger.warning / print lines
    main_outcome  \* how the script's main ended: "none" while it has not

vars == <<fn, pc, outcome, ret, exc, status, local, input, args, budget, trace, out, main_outcome>>

----------------------------------------------------------------------------
(* Bounds *)

\* the service answers "in progress" (or "still present") at most this often
MaxPolls == 3

\* the trace stops growing here; reachable traces are shorter
MaxTrace == 2 * MaxPolls + 4

----------------------------------------------------------------------------
(* Service answers *)

ErrorCodes == {"ResourceNotFoundException", "AccessDeniedException", "TestException"}

ErrorMessages == {"Invalid request parameters", "denied"}

StatusMessages == {"status message"}

NoValue == "<none>"

\* `ret` and `local` hold values of several kinds (strings, booleans,
\* dictionaries, tuples and lists): each value is kept under its kind
Unset == [unset |-> TRUE]

Str(s) == [str |-> s]

Bool(b) == [bool |-> b]

Rec(r) == [rec |-> r]

Tup(t) == [tup |-> t]

\* the value itself; NoValue while nothing was assigned
Untag(b) ==
    IF "str" \in DOMAIN b THEN b.str
    ELSE IF "bool" \in DOMAIN b THEN b.bool
    ELSE IF "rec" \in DOMAIN b THEN b.rec
    ELSE IF "tup" \in DOMAIN b THEN b.tup
    ELSE NoValue

\* an empty description list (ProjectVersionDescriptions, ProjectDescriptions)
NoDescriptions == "<empty>"

Ok(v) == [ok |-> TRUE, code |-> "", msg |-> "", val |-> v]

OkMsg(v, m) == [ok |-> TRUE, code |-> "", msg |-> m, val |-> v]

\* a failed call carries no value
Err(c, m) == [ok |-> FALSE, code |-> c, msg |-> m]

ClientErrors == {Err(c, m) : c \in ErrorCodes, m \in ErrorMessages}

DatasetStatuses ==
    {"CREATE_IN_PROGRESS", "CREATE_COMPLETE", "CREATE_FAILED",
     "UPDATE_IN_PROGRESS", "UPDATE_COMPLETE", "UPDATE_FAILED",
     "DELETE_IN_PROGRESS"}

ModelStatuses ==
    {"TRAINING_COMPLETED", "RUNNING", "STOPPING", "STOPPED", "FAILED",
     "COPYING_IN_PROGRESS", "COPYING_COMPLETED", "COPYING_FAILED", "DELETING"}

\* identifiers a caller may pass
Ids == {"id1", "id2"}

DatasetArns == {"arn:dataset/new"}

ModelArns == {"arn:model/copy"}

\* the second dataset of distribute_dataset_entries
TestArn == "arn:dataset/test"

\* Python's None
PyNone == "None"

CreateDatasetResponses == {Ok(a) : a \in DatasetArns} \cup ClientErrors

DescribeDatasetResponses ==
    {OkMsg(s, m) : s \in DatasetStatuses, m \in StatusMessages} \cup ClientErrors

DescribeProjectVersionsResponses ==
    {OkMsg(s, m) : s \in ModelStatuses, m \in StatusMessages}
        \cup {Ok(NoDescriptions)} \cup ClientErrors

PlainResponses == {Ok("response")} \cup ClientErrors

\* status values of a flow; PyNone when the response carries no status
FlowStatuses == {"NotPrepared", "Preparing", "Prepared", "Failed", PyNone}

\* a response of the flow API `api`
FlowResponse(api, s) == [api |-> api, id |-> "FLOW1", version |-> "1", status |-> s]

PrepareFlowResponses ==
    {Ok(FlowResponse("PrepareFlow", s)) : s \in FlowStatuses} \cup ClientErrors

GetFlowResponses ==
    {Ok(FlowResponse("GetFlow", s)) : s \in FlowStatuses} \cup ClientErrors

\* events of a completion stream of InvokeAgent
\* a chunk event: the chunk carries bytes and no content type
ChunkEvent(bytes) ==
    [hasChunk |-> TRUE, hasBytes |-> TRUE, bytes |-> bytes, contentType |-> NoValue,
     hasFiles |-> FALSE, files |-> <<>>]

\* a chunk event whose chunk carries bytes together with a content type
TypedChunkEvent(bytes, type) ==
    [hasChunk |-> TRUE, hasBytes |-> TRUE, bytes |-> bytes, contentType |-> type,
     hasFiles |-> FALSE, files |-> <<>>]

FilesEvent(files) ==
    [hasChunk |-> FALSE, hasBytes |-> FALSE, bytes |-> <<>>, contentType |-> NoValue,
     hasFiles |-> TRUE, files |-> files]

\* "Hi", "!", a byte that is not UTF-8, the two bytes of U+00E9, a chunk
\* without bytes, an event that is neither, image chunks (the bytes of the
\* test's mock image are ASCII, those of a PNG file are not UTF-8) and files
CompletionEvents ==
    {ChunkEvent(<<72, 105>>), ChunkEvent(<<33>>), ChunkEvent(<<255>>),
     ChunkEvent(<<195, 169>>),
     [hasChunk |-> TRUE, hasBytes |-> FALSE, bytes |-> <<>>, contentType |-> NoValue,
      hasFiles |-> FALSE, files |-> <<>>],
     [hasChunk |-> FALSE, hasBytes |-> FALSE, bytes |-> <<>>, contentType |-> NoValue,
      hasFiles |-> FALSE, files |-> <<>>],
     TypedChunkEvent(<<109>>, "image/png"),
     TypedChunkEvent(<<137, 80>>, "image/png"),
     FilesEvent(<<[bytes |-> <<137, 80>>, type |-> "image/png"]>>),
     FilesEvent(<<[bytes |-> <<>>, type |-> "image/png"]>>)}

CompletionStreams ==
    {<<>>} \cup {<<e>> : e \in CompletionEvents}
           \cup {<<e1, e2>> : e1 \in CompletionEvents, e2 \in CompletionEvents}

ChatStreams == {<<>>} \cup {<<e>> : e \in CompletionEvents}

\* events of a response stream of InvokeFlow
FlowEvents ==
    {[kind |-> "flowCompletionEvent", reason |-> "SUCCESS"],
     [kind |-> "flowCompletionEvent", reason |-> "INPUT_REQUIRED"],
     [kind |-> "flowOutputEvent", reason |-> ""],
     [kind |-> "flowTraceEvent", reason |-> ""]}

FlowStreams ==
    {<<>>} \cup {<<e>> : e \in FlowEvents}
           \cup {<<e1, e2>> : e1 \in FlowEvents, e2 \in FlowEvents}

\* lines typed at the chat prompt
UserMessages == {"quit", "Quit", "QUIT", "hello"}

\* values of uuid4()
SessionIds == {"session-1", "session-2"}

\* answers of ListRolePolicies
PolicyNameLists == {<<>>, <<"p1">>, <<"p1", "p2">>}

----------------------------------------------------------------------------
(* Bookkeeping *)

Call(op, arg, r) == [ev |-> "call", op |-> op, arg |-> arg, res |-> r, dur |-> 0]

Sleep(d) == [ev |-> "sleep", op |-> "time.sleep", arg |-> NoValue, res |-> Ok(NoValue), dur |-> d]

Record(t, e) == IF Len(t) < MaxTrace THEN Append(t, e) ELSE t

Line(ch, text) == [ch |-> ch, text |-> text]

\* one remote call and its answer
Remote(op, arg, r) == trace' = Record(trace, Call(op, arg, r))

\* slip: the wait grows with what the invocation has done so far
RemoteThenSleepLonger(op, arg, r, d) ==
    trace' = Record(Record(trace, Call(op, arg, r)), Sleep(d * (Len(trace) + 1)))

\* one remote call, then time.sleep(d)
RemoteThenSleep(op, arg, r, d) ==
    trace' = Record(Record(trace, Call(op, arg, r)), Sleep(d))

Log(ch, text) == out' = Append(out, Line(ch, text))

NoExc == [type |-> "none", code |-> "", msg |-> ""]

ClientError(r) == [type |-> "ClientError", code |-> r.code, msg |-> r.msg]

Exception(m) == [type |-> "Exception", code |-> "", msg |-> m]

\* `return v`
Return(v) ==
    /\ outcome' = "returned"
    /\ ret' = v
    /\ pc' = "done"
    /\ UNCHANGED exc

\* an exception leaves the wrapper
Raise(e) ==
    /\ outcome' = "raised"
    /\ exc' = e
    /\ pc' = "done"
    /\ UNCHANGED ret

\* the loop goes round: nothing is returned or raised
Continue(p) ==
    /\ pc' = p
    /\ UNCHANGED <<outcome, ret, exc>>

\* the environment may still give an answer that keeps the loop going
\* (inprog says whether this answer is one)
Allowed(inprog) == inprog => budget > 0

Spend(inprog) == budget' = IF inprog THEN budget - 1 ELSE budget

----------------------------------------------------------------------------
(* Text arguments and the json module *)

\* a text is the sequence of its characters
DQUOTE == "\""

BACKSLASH == "\\"

NEWLINE == "\n"

\* texts a caller may pass: plain, with a double quote, ending in a
\* backslash, a backslash before "n" (as in a Windows path), two backslashes,
\* a backslash before "a", a backslash before a double quote, and a text with
\* a line break; none holds a comma, a brace or white space other than the
\* line break
Texts ==
    {<<"a">>,
     <<"a", DQUOTE>>,
     <<"a", BACKSLASH>>,
     <<BACKSLASH, "n">>,
     <<BACKSLASH, BACKSLASH>>,
     <<BACKSLASH, "a">>,
     <<BACKSLASH, DQUOTE>>,
     <<"a", NEWLINE>>}

NoText == <<>>

\* names of projects and of model versions: letters, digits, "_", "." and "-"
ProjectNames == {<<"p", "1">>, <<"m", "y", "v", "e", "r", "s", "i", "o", "n">>}

VersionNames == {<<"m", ".", "1">>, <<"v", "e", "r", "s", "i", "o", "n">>}

Args(bucket, manifest_file, dataset_arn, updates, project_name, version_name) ==
    [bucket |-> bucket, manifest_file |-> manifest_file,
     dataset_arn |-> dataset_arn, updates |-> updates,
     project_name |-> project_name, version_name |-> version_name]

\* the text arguments of the wrapper f; `updates` is the text of the updates
\* file, project_name and version_name are the names inside the ARNs passed
ArgsOf(f) ==
    IF f = "create_dataset"
      THEN {Args(b, m, NoText, NoText, NoText, NoText) : b \in Texts, m \in Texts}
    ELSE IF f = "create_dataset_from_existing_dataset"
      THEN {Args(NoText, NoText, d, NoText, NoText, NoText) : d \in Texts}
    ELSE IF f = "update_dataset_entries"
      THEN {Args(NoText, NoText, NoText, u, NoText, NoText) : u \in Texts}
    ELSE IF f \in {"delete_model", "stop_model", "start_model", "delete_model.main"}
      THEN {Args(NoText, NoText, NoText, NoText, n, v) : n \in ProjectNames, v \in VersionNames}
    ELSE IF f = "delete_project"
      THEN {Args(NoText, NoText, NoText, NoText, n, NoText) : n \in ProjectNames}
    ELSE {Args(NoText, NoText, NoText, NoText, NoText, NoText)}

\* arn:aws:rekognition:<region>:<account>, written short
ArnPrefix == <<"a", "r", "n", ":", "r", "e", "k">>

\* the ARN of a project: <prefix>:project/<project>/<timestamp>
ProjectArn(project_name) ==
    ArnPrefix \o <<":", "p", "r", "o", "j", "e", "c", "t", "/">> \o project_name \o <<"/", "1", "6">>

\* the ARN of a model: <prefix>:project/<project>/version/<version>/<timestamp>
ModelArn(project_name, version_name) ==
    ArnPrefix \o <<":", "p", "r", "o", "j", "e", "c", "t", "/">> \o project_name
        \o <<"/", "v", "e", "r", "s", "i", "o", "n", "/">> \o version_name \o <<"/", "1", "7">>

\* what json.loads raises; no text is equal to it
JSONDecodeError == <<"JSONDecodeError">>

\* the character that a backslash followed by c stands for in a JSON string
backslash_escapes ==
    {<<DQUOTE, DQUOTE>>, <<BACKSLASH, BACKSLASH>>, <<"/", "/">>,
     <<"n", NEWLINE>>, <<"t", "\t">>, <<"r", "\r">>, <<"f", "\f">>}

\* json.loads on a string literal whose characters after the opening quote
\* are s, the closing quote following s: the value of the literal, or
\* JSONDecodeError.  A double quote in s ends the literal early, and what
\* follows it (the rest of s, then the closing quote) is neither the comma
\* nor the brace that must follow a value; a backslash at the end of s
\* escapes the closing quote, so that the literal runs on into the text after
\* it; a line break is a control character, which strict parsing rejects; a
\* backslash before a character outside the table is an invalid escape.
RECURSIVE scanstring(_)
scanstring(s) ==
    IF s = <<>> THEN <<>>
    ELSE IF Head(s) = DQUOTE \/ Head(s) = NEWLINE THEN JSONDecodeError
    ELSE IF Head(s) = BACKSLASH
      THEN IF Len(s) >= 2 /\ \E e \in backslash_escapes : e[1] = s[2]
             THEN LET rest == scanstring(Tail(Tail(s))) IN
                  IF rest = JSONDecodeError THEN JSONDecodeError
                  ELSE <<(CHOOSE e \in backslash_escapes : e[1] = s[2])[2]>> \o rest
             ELSE JSONDecodeError
    ELSE LET rest == scanstring(Tail(s)) IN
         IF rest = JSONDecodeError THEN JSONDecodeError ELSE <<Head(s)>> \o rest

\* json.dumps of a text: the literal with its quotes
RECURSIVE json_dumps_body(_)
json_dumps_body(t) ==
    IF t = <<>> THEN <<>>
    ELSE (IF Head(t) = DQUOTE THEN <<BACKSLASH, DQUOTE>>
          ELSE IF Head(t) = BACKSLASH THEN <<BACKSLASH, BACKSLASH>>
          ELSE IF Head(t) = NEWLINE THEN <<BACKSLASH, "n">>
          ELSE <<Head(t)>>) \o json_dumps_body(Tail(t))

json_dumps(t) == <<DQUOTE>> \o json_dumps_body(t) \o <<DQUOTE>>

\* json.loads of a literal written by json.dumps
json_loads_literal(lit) == scanstring(SubSeq(lit, 2, Len(lit) - 1))

\* str.upper on the dataset types
DatasetTypes == {"train", "test"}

str_upper(t) == IF t = "train" THEN "TRAIN" ELSE IF t = "test" THEN "TEST" ELSE t

----------------------------------------------------------------------------
(* Strings: positions count from 0, as in Python.  A CHOOSE over a one-element
   set names an intermediate result, which is then computed once. *)

\* s.find(c, start): the first position from start on that holds c, or -1
str_find(s, c, start) ==
    LET hits == {k \in start..(Len(s) - 1) : s[k + 1] = c} IN
    IF hits = {} THEN -1 ELSE CHOOSE k \in hits : \A h \in hits : k <= h

\* s[start:end], with a negative position counted from the end
str_slice(s, start, end) ==
    LET from == IF start < 0 THEN (IF Len(s) + start < 0 THEN 0 ELSE Len(s) + start)
                ELSE IF start > Len(s) THEN Len(s) ELSE start
        to == IF end < 0 THEN (IF Len(s) + end < 0 THEN 0 ELSE Len(s) + end)
              ELSE IF end > Len(s) THEN Len(s) ELSE end
    IN SubSeq(s, from + 1, to)

\* the while loop of find_forward_slash
RECURSIVE find_forward_slash_loop(_, _, _)
find_forward_slash_loop(input_string, position, n) ==
    IF position >= 0 /\ n > 1
      THEN CHOOSE found \in {find_forward_slash_loop(input_string, next, n - 1) :
                                next \in {str_find(input_string, "/", position + 1)}} : TRUE
      ELSE position

find_forward_slash(input_string, n) ==
    CHOOSE found \in {find_forward_slash_loop(input_string, position, n) :
                         position \in {str_find(input_string, "/", 0)}} : TRUE

\* what s.split(sep, 1)[1] raises when sep does not occur in s
IndexError == <<"IndexError">>

\* s.split(sep, 1)[1]: what follows the first occurrence of sep in s
str_split_once_second(s, sep) ==
    LET hits == {k \in 1..(Len(s) - Len(sep) + 1) : SubSeq(s, k, k + Len(sep) - 1) = sep} IN
    IF hits = {} THEN IndexError
    ELSE SubSeq(s, (CHOOSE k \in hits : \A h \in hits : k <= h) + Len(sep), Len(s))

\* s.rpartition('/')[0]: what comes before the last "/", empty without one
str_rpartition_head(s) ==
    LET hits == {k \in DOMAIN s : s[k] = "/"} IN
    IF hits = {} THEN <<>>
    ELSE SubSeq(s, 1, (CHOOSE k \in hits : \A h \in hits : h <= k) - 1)

\* delete_model: the version name is cut out between the 3rd and the 4th "/"
delete_model_version_name(model_arn) ==
    CHOOSE version_name \in
        {str_slice(model_arn, start, end) : start \in {find_forward_slash(model_arn, 3) + 1},
                                            end \in {find_forward_slash(model_arn, 4)}} : TRUE

\* slip: the slice starts at the 1st "/" itself
delete_project_project_name_from_slash(project_arn) ==
    CHOOSE project_name \in
        {str_slice(project_arn, start, end) : start \in {find_forward_slash(project_arn, 1)},
                                              end \in {find_forward_slash(project_arn, 2)}} : TRUE

\* delete_project: the project name is cut out between the 1st and the 2nd "/"
delete_project_project_name(project_arn) ==
    CHOOSE project_name \in
        {str_slice(project_arn, start, end) : start \in {find_forward_slash(project_arn, 1) + 1},
                                              end \in {find_forward_slash(project_arn, 2)}} : TRUE

\* start_model, stop_model: (model_arn.split("version/", 1)[1]).rpartition('/')[0]
get_model_status_version_name(model_arn) ==
    CHOOSE version_name \in
        {IF second = IndexError THEN IndexError ELSE str_rpartition_head(second) :
            second \in {str_split_once_second(model_arn, <<"v", "e", "r", "s", "i", "o", "n", "/">>)}} : TRUE

\* the parameters of DescribeProjectVersions
describe_project_versions_request(project_arn, version_name) ==
    [ProjectArn |-> project_arn, VersionNames |-> <<version_name>>]

\* statuses of a project
ProjectStatuses == {"CREATED", "DELETING"}

----------------------------------------------------------------------------
(* custom_labels_create_dataset_manifest_file.py *)

\* the parameters of the CreateDataset request; bucket and name are the
\* values json.loads gave for the two string literals of `dataset_source`
create_dataset_request(project_arn, dataset_type, bucket, name) ==
    [ProjectArn |-> project_arn, DatasetType |-> str_upper(dataset_type),
     DatasetSource |-> [GroundTruthManifest |-> [S3Object |-> [Bucket |-> bucket, Name |-> name]]]]

\* slip: CREATE_FAILED taken for a finished creation
create_dataset_status_failed_finishes(s) ==
    IF s = "CREATE_IN_PROGRESS" THEN "continue"
    ELSE IF s \in {"CREATE_COMPLETE", "CREATE_FAILED"} THEN "finished"
    ELSE "unexpected"

\* the if-chain on `status` in the polling loop
create_dataset_status(s) ==
    IF s = "CREATE_IN_PROGRESS" THEN "continue"
    ELSE IF s = "CREATE_COMPLETE" THEN "finished"
    ELSE IF s = "CREATE_FAILED" THEN "failed"
    ELSE "unexpected"

create_dataset ==
    /\ fn = "create_dataset"
    /\ outcome = "running"
    /\ \/ /\ pc = "start"
          /\ LET bucket == scanstring(args.bucket)
                 name == scanstring(args.manifest_file)
             IN
             IF bucket = JSONDecodeError \/ name = JSONDecodeError
               THEN /\ Raise(Exception("JSONDecodeError"))
                    /\ UNCHANGED <<local, trace, out>>
               ELSE \E dataset_type \in DatasetTypes, r \in CreateDatasetResponses :
                      /\ Remote("create_dataset",
                                create_dataset_request(input, dataset_type, bucket, name), r)
                      /\ IF r.ok
                           THEN /\ local' = Str(r.val)
                                /\ Continue("poll")
                                /\ UNCHANGED out
                           ELSE /\ Log("logger.exception", "Couldn't create dataset")
                                /\ Raise(ClientError(r))
                                /\ UNCHANGED local
          /\ UNCHANGED <<status, budget>>
       \/ /\ pc = "poll"
          /\ \E r \in DescribeDatasetResponses :
                /\ Allowed(r.ok /\ r.val = "CREATE_IN_PROGRESS")
                /\ Spend(r.ok /\ r.val = "CREATE_IN_PROGRESS")
                /\ IF ~r.ok
                     THEN /\ Remote("describe_dataset", Untag(local), r)
                          /\ Log("logger.exception", "Couldn't create dataset")
                          /\ Raise(ClientError(r))
                          /\ UNCHANGED status
                     ELSE /\ status' = r.val
                          /\ LET b == create_dataset_status(r.val) IN
                             CASE b = "continue" ->
                                    /\ RemoteThenSleep("describe_dataset", Untag(local), r, 5)
                                    /\ Continue("poll")
                                    /\ UNCHANGED out
                               [] b = "finished" ->
                                    /\ Remote("describe_dataset", Untag(local), r)
                                    /\ Return(local)
                                    /\ UNCHANGED out
                               [] b = "failed" ->
                                    /\ Remote("describe_dataset", Untag(local), r)
                                    /\ Log("logger.exception", "Dataset creation failed")
                                    /\ Raise(Exception("Dataset creation failed"))
                               [] OTHER ->
                                    /\ Remote("describe_dataset", Untag(local), r)
                                    /\ Log("logger.exception", "Failed. Unexpected state for dataset creation")
                                    /\ Raise(Exception("Failed. Unexpected state for dataset creation"))
                /\ UNCHANGED local
    /\ UNCHANGED <<fn, input, args, main_outcome>>

----------------------------------------------------------------------------
(* custom_labels_create_dataset_existing.py *)

\* the if-chain on `status` in the polling loop
create_dataset_from_existing_dataset_status(s) ==
    IF s = "CREATE_IN_PROGRESS" THEN "continue"
    ELSE IF s = "CREATE_COMPLETE" THEN "finished"
    ELSE IF s = "CREATE_FAILED" THEN "failed"
    ELSE "unexpected"

\* the parameters of the CreateDataset request; dataset_arn is the value
\* json.loads gave for the string literal of `dataset_source`
create_dataset_from_existing_dataset_request(project_arn, dataset_type, dataset_arn) ==
    [ProjectArn |-> project_arn, DatasetType |-> str_upper(dataset_type),
     DatasetSource |-> [DatasetArn |-> dataset_arn]]

create_dataset_from_existing_dataset ==
    /\ fn = "create_dataset_from_existing_dataset"
    /\ outcome = "running"
    /\ \/ /\ pc = "start"
          /\ LET dataset_arn == scanstring(args.dataset_arn) IN
             IF dataset_arn = JSONDecodeError
               THEN /\ Raise(Exception("JSONDecodeError"))
                    /\ UNCHANGED <<local, trace, out>>
               ELSE \E dataset_type \in DatasetTypes, r \in CreateDatasetResponses :
                      /\ Remote("create_dataset",
                                create_dataset_from_existing_dataset_request(input, dataset_type, dataset_arn), r)
                      /\ IF r.ok
                           THEN /\ local' = Str(r.val)
                                /\ Continue("poll")
                                /\ UNCHANGED out
                           ELSE /\ Log("logger.exception", "Couldn't create dataset")
                                /\ Raise(ClientError(r))
                                /\ UNCHANGED local
          /\ UNCHANGED <<status, budget>>
       \/ /\ pc = "poll"
          /\ \E r \in DescribeDatasetResponses :
                /\ Allowed(r.ok /\ r.val = "CREATE_IN_PROGRESS")
                /\ Spend(r.ok /\ r.val = "CREATE_IN_PROGRESS")
                /\ IF ~r.ok
                     THEN /\ Remote("describe_dataset", Untag(local), r)
                          /\ Log("logger.exception", "Couldn't create dataset")
                          /\ Raise(ClientError(r))
                          /\ UNCHANGED status
                     ELSE /\ status' = r.val
                          /\ LET b == create_dataset_from_existing_dataset_status(r.val) IN
                             CASE b = "continue" ->
                                    /\ RemoteThenSleep("describe_dataset", Untag(local), r, 5)
                                    /\ Continue("poll")
                                    /\ UNCHANGED out
                               [] b = "finished" ->
                                    /\ Remote("describe_dataset", Untag(local), r)
                                    /\ Return(local)
                                    /\ UNCHANGED out
                               [] b = "failed" ->
                                    /\ Remote("describe_dataset", Untag(local), r)
                                    /\ Log("logger.exception", "Dataset creation failed")
                                    /\ Raise(Exception("Dataset creation failed"))
                               [] OTHER ->
                                    /\ Remote("describe_dataset", Untag(local), r)
                                    /\ Log("logger.exception", "Failed. Unexpected state for dataset creation")
                                    /\ Raise(Exception("Failed. Unexpected state for dataset creation"))
                /\ UNCHANGED local
    /\ UNCHANGED <<fn, input, args, main_outcome>>

----------------------------------------------------------------------------
(* custom_labels_add_images_to_dataset.py *)

\* slip: the loop polls again after UPDATE_FAILED
update_dataset_entries_status_retries(s) ==
    IF s \in {"UPDATE_IN_PROGRESS", "UPDATE_FAILED"} THEN "continue"
    ELSE IF s = "UPDATE_COMPLETE" THEN "finished"
    ELSE "unexpected"

\* the if-chain on `status` in the polling loop
update_dataset_entries_status(s) ==
    IF s = "UPDATE_IN_PROGRESS" THEN "continue"
    ELSE IF s = "UPDATE_COMPLETE" THEN "finished"
    ELSE IF s = "UPDATE_FAILED" THEN "failed"
    ELSE "unexpected"

\* the parameters of the UpdateDatasetEntries request; ground_truth is the
\* value json.loads gave for the literal that json.dumps wrote
update_dataset_entries_request(dataset_arn, ground_truth) ==
    [Changes |-> [GroundTruth |-> ground_truth], DatasetArn |-> dataset_arn]

update_dataset_entries ==
    /\ fn = "update_dataset_entries"
    /\ outcome = "running"
    /\ \/ /\ pc = "start"
          /\ LET ground_truth == json_loads_literal(json_dumps(args.updates)) IN
             IF ground_truth = JSONDecodeError
               THEN /\ Raise(Exception("JSONDecodeError"))
                    /\ UNCHANGED <<trace, out>>
               ELSE \E r \in PlainResponses :
                      /\ Remote("update_dataset_entries",
                                update_dataset_entries_request(input, ground_truth), r)
                      /\ IF r.ok
                           THEN /\ Continue("poll")
                                /\ UNCHANGED out
                           ELSE /\ Log("logger.exception", "Couldn't update dataset")
                                /\ Raise(ClientError(r))
          /\ UNCHANGED <<status, local, budget>>
       \/ /\ pc = "poll"
          /\ \E r \in DescribeDatasetResponses :
                /\ Allowed(r.ok /\ r.val = "UPDATE_IN_PROGRESS")
                /\ Spend(r.ok /\ r.val = "UPDATE_IN_PROGRESS")
                /\ IF ~r.ok
                     THEN /\ Remote("describe_dataset", input, r)
                          /\ Log("logger.exception", "Couldn't update dataset")
                          /\ Raise(ClientError(r))
                          /\ UNCHANGED <<status, local>>
                     ELSE /\ status' = r.val
                          /\ local' = Str(r.msg)
                          /\ LET b == update_dataset_entries_status(r.val) IN
                             CASE b = "continue" ->
                                    /\ RemoteThenSleep("describe_dataset", input, r, 5)
                                    /\ Continue("poll")
                                    /\ UNCHANGED out
                               [] b = "finished" ->
                                    /\ Remote("describe_dataset", input, r)
                                    /\ Return(Tup(<<r.val, r.msg>>))
                                    /\ UNCHANGED out
                               [] b = "failed" ->
                                    /\ Remote("describe_dataset", input, r)
                                    /\ Log("logger.exception", "Dataset update failed")
                                    /\ Raise(Exception("Dataset update failed"))
                               [] OTHER ->
                                    /\ Remote("describe_dataset", input, r)
                                    /\ Log("logger.exception", "Failed. Unexpected state for dataset update")
                                    /\ Raise(Exception("Failed. Unexpected state for dataset update"))
    /\ UNCHANGED <<fn, input, args, main_outcome>>

----------------------------------------------------------------------------
(* custom_labels_stop_model.py *)

\* get_model_status: the status of the first description, or an error when
\* the list is empty
get_model_status(r) ==
    IF r.val # NoDescriptions
      THEN [raised |-> FALSE, status |-> r.val]
      ELSE [raised |-> TRUE, status |-> NoValue]

\* slip: the loop also polls again while the model is RUNNING or DELETING
stop_model_status_waits(s) ==
    IF s \in {"STOPPING", "RUNNING", "DELETING"} THEN "continue"
    ELSE IF s = "STOPPED" THEN "finished"
    ELSE "unexpected"

\* the if-chain on `status` in the polling loop
stop_model_status(s) ==
    IF s = "STOPPING" THEN "continue"
    ELSE IF s = "STOPPED" THEN "finished"
    ELSE "unexpected"

\* the parameters of the describe call of get_model_status
get_model_status_request ==
    CHOOSE request \in
        {describe_project_versions_request(input, get_model_status_version_name(model_arn)) :
            model_arn \in {ModelArn(args.project_name, args.version_name)}} : TRUE

stop_model ==
    /\ fn = "stop_model"
    /\ outcome = "running"
    /\ \/ /\ pc = "start"
          /\ \E r \in {OkMsg(s, NoValue) : s \in ModelStatuses} \cup ClientErrors :
                /\ Remote("stop_project_version", [ProjectVersionArn |-> ModelArn(args.project_name, args.version_name)], r)
                /\ IF r.ok
                     THEN /\ Continue("poll")
                          /\ UNCHANGED out
                     ELSE /\ Log("logger.exception", "Couldn't stop model")
                          /\ Raise(ClientError(r))
                /\ UNCHANGED <<status, local, budget>>
       \/ /\ pc = "poll"
          /\ \E r \in DescribeProjectVersionsResponses :
                /\ Allowed(r.ok /\ r.val = "STOPPING")
                /\ Spend(r.ok /\ r.val = "STOPPING")
                /\ IF ~r.ok
                     THEN /\ Remote("describe_project_versions", get_model_status_request, r)
                          /\ Log("logger.exception", "Couldn't stop model")
                          /\ Raise(ClientError(r))
                          /\ UNCHANGED status
                     ELSE LET g == get_model_status(r) IN
                          IF g.raised
                            THEN /\ Remote("describe_project_versions", get_model_status_request, r)
                                 /\ Log("logger.exception", "Model not found")
                                 /\ Raise(Exception("Model not found"))
                                 /\ UNCHANGED status
                            ELSE /\ status' = g.status
                                 /\ LET b == stop_model_status(g.status) IN
                                    CASE b = "continue" ->
                                           /\ RemoteThenSleep("describe_project_versions", get_model_status_request, r, 10)
                                           /\ Continue("poll")
                                           /\ UNCHANGED out
                                      [] b = "finished" ->
                                           /\ Remote("describe_project_versions", get_model_status_request, r)
                                           /\ Return(Str(g.status))
                                           /\ UNCHANGED out
                                      [] OTHER ->
                                           /\ Remote("describe_project_versions", get_model_status_request, r)
                                           /\ Log("logger.exception", "Error stopping model. Unexepected state")
                                           /\ Raise(Exception("Error stopping model. Unexepected state"))
                /\ UNCHANGED local
    /\ UNCHANGED <<fn, input, args, main_outcome>>

----------------------------------------------------------------------------
(* custom_labels_copy_model.py *)

\* slip: the loop polls again after COPYING_FAILED
copy_model_status_retries(s) ==
    IF s \in {"COPYING_IN_PROGRESS", "COPYING_FAILED"} THEN "continue" ELSE "finished"

\* slip: the `continue` after the sleep is missing
copy_model_status_no_continue(s) == "finished"

\* the if-chain on `status`: only COPYING_IN_PROGRESS reaches `continue`,
\* every other status falls through to `finished = True`
copy_model_status(s) ==
    IF s = "COPYING_IN_PROGRESS" THEN "continue" ELSE "finished"

copy_model ==
    /\ fn = "copy_model"
    /\ outcome = "running"
    /\ \/ /\ pc = "start"
          \* training_results.replace("s3://", "").split("/", 1) gives one or
          \* two parts; unpacking one part into two names is a ValueError
          /\ \E parts \in {1, 2} :
                IF parts = 1
                  THEN /\ Raise(Exception("ValueError"))
                       /\ UNCHANGED <<status, local, budget, trace, out>>
                  ELSE \E r \in {Ok(a) : a \in ModelArns} \cup ClientErrors :
                         /\ Remote("copy_project_version", input, r)
                         /\ IF r.ok
                              THEN /\ local' = Str(r.val)
                                   /\ status' = "UNKNOWN"
                                   /\ Continue("poll")
                                   /\ UNCHANGED out
                              ELSE /\ Log("logger.exception", "Couldn't copy model.")
                                   /\ Raise(ClientError(r))
                                   /\ UNCHANGED <<local, status>>
                         /\ UNCHANGED budget
       \/ /\ pc = "poll"
          /\ \E r \in DescribeProjectVersionsResponses :
                /\ Allowed(r.ok /\ r.val = "COPYING_IN_PROGRESS")
                /\ Spend(r.ok /\ r.val = "COPYING_IN_PROGRESS")
                /\ IF ~r.ok
                     THEN /\ Remote("describe_project_versions", input, r)
                          /\ Log("logger.exception", "Couldn't copy model.")
                          /\ Raise(ClientError(r))
                          /\ UNCHANGED status
                     ELSE IF r.val = NoDescriptions
                            \* ["ProjectVersionDescriptions"][0] of an empty list
                            THEN /\ Remote("describe_project_versions", input, r)
                                 /\ Raise(Exception("IndexError"))
                                 /\ UNCHANGED <<status, out>>
                            ELSE /\ status' = r.val
                                 /\ UNCHANGED out
                                 /\ IF copy_model_status(r.val) = "continue"
                                      THEN /\ RemoteThenSleep("describe_project_versions", input, r, 60)
                                           /\ Continue("poll")
                                      ELSE /\ Remote("describe_project_versions", input, r)
                                           /\ Return(Tup(<<Untag(local), r.val>>))
                /\ UNCHANGED local
    /\ UNCHANGED <<fn, input, args, main_outcome>>

----------------------------------------------------------------------------
(* custom_labels_split_dataset.py *)

\* the if-chain of check_dataset_status; "failed" and "unexpected" leave the
\* loop with `break` and the function returns the status
check_dataset_status_status(s) ==
    IF s = "UPDATE_IN_PROGRESS" THEN "continue"
    ELSE IF s = "UPDATE_COMPLETE" THEN "finished"
    ELSE IF s = "UPDATE_FAILED" THEN "failed"
    ELSE "unexpected"

\* what check_dataset_status returns for the status that ended its loop
check_dataset_status_return(s, m) ==
    IF check_dataset_status_status(s) = "unexpected"
      THEN <<s, "An unexpected error occurred while distributing the dataset">>
      ELSE <<s, m>>

\* slip: `or` in place of `and`
distribute_dataset_entries_print_or(training, test) ==
    IF training[1] = "UPDATE_COMPLETE" \/ test[1] = "UPDATE_COMPLETE"
      THEN <<Line("print", "Distribution complete")>>
      ELSE <<Line("print", "Distribution failed:"),
             Line("print", "training dataset: " \o training[1] \o " : " \o training[2]),
             Line("print", "test dataset: " \o test[1] \o " : " \o test[2])>>

\* slip: the status of the test dataset is not looked at
distribute_dataset_entries_print_training_only(training, test) ==
    IF training[1] = "UPDATE_COMPLETE"
      THEN <<Line("print", "Distribution complete")>>
      ELSE <<Line("print", "Distribution failed:"),
             Line("print", "training dataset: " \o training[1] \o " : " \o training[2]),
             Line("print", "test dataset: " \o test[1] \o " : " \o test[2])>>

\* the print at the end of distribute_dataset_entries
distribute_dataset_entries_print(training, test) ==
    IF training[1] = "UPDATE_COMPLETE" /\ test[1] = "UPDATE_COMPLETE"
      THEN <<Line("print", "Distribution complete")>>
      ELSE <<Line("print", "Distribution failed:"),
             Line("print", "training dataset: " \o training[1] \o " : " \o training[2]),
             Line("print", "test dataset: " \o test[1] \o " : " \o test[2])>>

\* one round of the loop of check_dataset_status for the dataset `arn`;
\* `after` is where distribute_dataset_entries goes on when it returns
check_dataset_status(arn, here, after) ==
    \E r \in DescribeDatasetResponses :
        /\ Allowed(r.ok /\ r.val = "UPDATE_IN_PROGRESS")
        /\ Spend(r.ok /\ r.val = "UPDATE_IN_PROGRESS")
        /\ IF ~r.ok
             THEN /\ Remote("describe_dataset", arn, r)
                  /\ Log("logger.exception", "Couldn't distribute dataset")
                  /\ Raise(ClientError(r))
                  /\ UNCHANGED <<status, local>>
             ELSE /\ status' = r.val
                  /\ LET b == check_dataset_status_status(r.val)
                         result == check_dataset_status_return(r.val, r.msg)
                         logged == IF b = "failed"
                                     THEN <<Line("logger.exception", "Dataset distribution failed")>>
                                   ELSE IF b = "unexpected"
                                     THEN <<Line("logger.exception", "Failed. Unexpected state for dataset distribution")>>
                                   ELSE <<>>
                     IN
                     IF b = "continue"
                       THEN /\ RemoteThenSleep("describe_dataset", arn, r, 5)
                            /\ Continue(here)
                            /\ UNCHANGED <<local, out>>
                       ELSE /\ Remote("describe_dataset", arn, r)
                            /\ IF after = "done"
                                 THEN /\ out' = out \o logged \o distribute_dataset_entries_print(Untag(local), result)
                                      /\ Return(Str(PyNone))
                                      /\ UNCHANGED local
                                 ELSE /\ out' = out \o logged
                                      /\ local' = Tup(result)
                                      /\ Continue(after)

distribute_dataset_entries ==
    /\ fn = "distribute_dataset_entries"
    /\ outcome = "running"
    /\ \/ /\ pc = "start"
          /\ \E r \in PlainResponses :
                /\ Remote("distribute_dataset_entries", <<input, TestArn>>, r)
                /\ IF r.ok
                     THEN /\ Continue("poll_training")
                          /\ UNCHANGED out
                     ELSE /\ Log("logger.exception", "Couldn't distribute dataset")
                          /\ Raise(ClientError(r))
                /\ UNCHANGED <<status, local, budget>>
       \/ /\ pc = "poll_training"
          /\ check_dataset_status(input, "poll_training", "poll_test")
       \/ /\ pc = "poll_test"
          /\ check_dataset_status(TestArn, "poll_test", "done")
    /\ UNCHANGED <<fn, input, args, main_outcome>>

----------------------------------------------------------------------------
(* custom_labels_delete_model.py *)

\* the parameters of the describe call of the wait loop
delete_model_request ==
    CHOOSE request \in
        {describe_project_versions_request(input, delete_model_version_name(model_arn)) :
            model_arn \in {ModelArn(args.project_name, args.version_name)}} : TRUE

\* the answers to the describe call of the wait loop, which counts the
\* descriptions and reads no status
delete_model_responses ==
    {OkMsg(s, m) : s \in {"DELETING", "RUNNING", "TRAINING_COMPLETED"}, m \in StatusMessages}
        \cup {Ok(NoDescriptions)} \cup ClientErrors

\* the steps of delete_model; `first` is the position of its first statement
delete_model_steps(first) ==
    /\ \/ /\ pc = first
          /\ \E r \in PlainResponses :
                /\ Remote("delete_project_version", [ProjectVersionArn |-> ModelArn(args.project_name, args.version_name)], r)
                /\ IF r.ok
                     THEN /\ Continue("poll")
                          /\ UNCHANGED out
                     ELSE /\ Log("logger.exception", "Couldn't delete model")
                          /\ Raise(ClientError(r))
                /\ UNCHANGED budget
       \/ /\ pc = "poll"
          /\ \E r \in delete_model_responses :
                /\ Allowed(r.ok /\ r.val # NoDescriptions)
                /\ Spend(r.ok /\ r.val # NoDescriptions)
                /\ IF ~r.ok
                     THEN /\ Remote("describe_project_versions", delete_model_request, r)
                          /\ Log("logger.exception", "Couldn't delete model")
                          /\ Raise(ClientError(r))
                     ELSE IF r.val = NoDescriptions
                            THEN /\ Remote("describe_project_versions", delete_model_request, r)
                                 /\ Return(Bool(TRUE))
                                 /\ UNCHANGED out
                            ELSE /\ RemoteThenSleep("describe_project_versions", delete_model_request, r, 5)
                                 /\ Continue("poll")
                                 /\ UNCHANGED out

delete_model ==
    /\ fn = "delete_model"
    /\ outcome = "running"
    /\ delete_model_steps("start")
    /\ UNCHANGED <<fn, input, args, main_outcome, status, local>>

\* what a user may type at the prompt of a deletion script
Typed == {"delete", "Delete", "DELETE", "delete ", "yes", ""}

\* slip: the answer is compared without regard to case
confirm_model_deletion_any_case(start) == start \in {"delete", "Delete", "DELETE"}

\* `if start == "delete": return True else: return False`
confirm_model_deletion(start) == start = "delete"

\* main of custom_labels_delete_model.py up to the return of delete_model;
\* the line read by input() is written to `out` on the channel "input"
delete_model_main ==
    /\ fn = "delete_model.main"
    /\ outcome = "running"
    /\ \/ /\ pc = "start"
          /\ \E start \in Typed :
                IF confirm_model_deletion(start)
                  THEN /\ out' = out \o <<Line("print", "Are you sure you wany to delete model"),
                                              Line("input", start),
                                              Line("print", "Deleting model")>>
                       /\ Continue("delete")
                       /\ UNCHANGED main_outcome
                  ELSE /\ out' = out \o <<Line("print", "Are you sure you wany to delete model"),
                                              Line("input", start),
                                              Line("print", "Not deleting model")>>
                       /\ outcome' = "skipped"
                       /\ pc' = "done"
                       /\ main_outcome' = "ended"
                       /\ UNCHANGED <<ret, exc>>
          /\ UNCHANGED <<budget, trace>>
       \/ /\ delete_model_steps("delete")
          /\ UNCHANGED main_outcome
    /\ UNCHANGED <<fn, input, args, status, local>>

----------------------------------------------------------------------------
(* custom_labels_copy_model_delete_project_policy.py *)

\* the values of --policy_revision_id; PyNone when the option is not given
PolicyRevisionIds == {PyNone, "rev1"}

\* the parameters of DeleteProjectPolicy
delete_project_policy_request(policy_name, project_arn, policy_revision_id) ==
    IF policy_revision_id = PyNone
      THEN [PolicyName |-> policy_name, ProjectArn |-> project_arn]
      ELSE [PolicyName |-> policy_name, PolicyRevisionId |-> policy_revision_id,
            ProjectArn |-> project_arn]

\* `if delete == "delete": return True else: return False`
confirm_project_policy_deletion(delete) == delete = "delete"

\* main of custom_labels_copy_model_delete_project_policy.py up to the return
\* of delete_project_policy
delete_project_policy_main ==
    /\ fn = "delete_project_policy.main"
    /\ outcome = "running"
    /\ \/ /\ pc = "start"
          /\ \E delete \in Typed :
                IF confirm_project_policy_deletion(delete)
                  THEN /\ out' = out \o <<Line("print", "Are you sure you wany to delete project policy"),
                                              Line("input", delete),
                                              Line("print", "Deleting project_policy")>>
                       /\ Continue("delete")
                       /\ UNCHANGED main_outcome
                  ELSE /\ out' = out \o <<Line("print", "Are you sure you wany to delete project policy"),
                                              Line("input", delete),
                                              Line("print", "Not deleting project policy")>>
                       /\ outcome' = "skipped"
                       /\ pc' = "done"
                       /\ main_outcome' = "ended"
                       /\ UNCHANGED <<ret, exc>>
          /\ UNCHANGED trace
       \/ /\ pc = "delete"
          /\ \E r \in PlainResponses, policy_revision_id \in PolicyRevisionIds :
                /\ Remote("delete_project_policy",
                          delete_project_policy_request("policy1", input, policy_revision_id), r)
                /\ IF r.ok
                     THEN /\ Return(Str(PyNone))
                          /\ UNCHANGED out
                     ELSE /\ Log("logger.exception", "Couldn't delete project policy.")
                          /\ Raise(ClientError(r))
          /\ UNCHANGED main_outcome
    /\ UNCHANGED <<fn, input, args, status, local, budget>>
----------------------------------------------------------------------------
(* custom_labels_delete_project.py *)

\* the parameters of the describe call of the wait loop
delete_project_request ==
    CHOOSE request \in
        {[ProjectNames |-> <<delete_project_project_name(project_arn)>>] :
            project_arn \in {ProjectArn(args.project_name)}} : TRUE

delete_project ==
    /\ fn = "delete_project"
    /\ outcome = "running"
    /\ \/ /\ pc = "start"
          /\ \E r \in {Ok("DELETING")} \cup ClientErrors :
                /\ Remote("delete_project", [ProjectArn |-> ProjectArn(args.project_name)], r)
                /\ IF r.ok
                     THEN /\ Continue("poll")
                          /\ UNCHANGED out
                     ELSE /\ Log("logger.exception", "Couldn't delete project")
                          /\ Raise(ClientError(r))
                /\ UNCHANGED budget
       \/ /\ pc = "poll"
          /\ \E r \in {Ok(s) : s \in ProjectStatuses} \cup {Ok(NoDescriptions)} \cup ClientErrors :
                /\ Allowed(r.ok /\ r.val # NoDescriptions)
                /\ Spend(r.ok /\ r.val # NoDescriptions)
                /\ IF ~r.ok
                     THEN /\ Remote("describe_projects", delete_project_request, r)
                          /\ Log("logger.exception", "Couldn't delete project")
                          /\ Raise(ClientError(r))
                     ELSE IF r.val = NoDescriptions
                            THEN /\ Remote("describe_projects", delete_project_request, r)
                                 /\ Return(Bool(TRUE))
                                 /\ UNCHANGED out
                            ELSE /\ RemoteThenSleep("describe_projects", delete_project_request, r, 5)
                                 /\ Continue("poll")
                                 /\ UNCHANGED out
    /\ UNCHANGED <<fn, input, args, main_outcome, status, local>>

----------------------------------------------------------------------------
(* custom_labels_copy_model_list_project_policies.py,
   custom_labels_list_dataset_entries.py *)

\* the pagination tokens the service hands out
Tokens == {"t1", "t2"}

\* stands for a response without the key NextToken
NoToken == "<absent>"

\* one page of a list response; NextToken = NoToken when the key is absent
Page(items, token) == [Items |-> items, NextToken |-> token]

ListResponses(pages) ==
    {Ok(Page(items, token)) : items \in pages, token \in Tokens \cup {NoToken}}
        \cup ClientErrors

ProjectPolicy(name) ==
    [PolicyName |-> name, ProjectArn |-> "arn:project", PolicyDocument |-> "{}",
     PolicyRevisionId |-> "rev-" \o name]

\* the pages of ListProjectPolicies
ProjectPolicyPages ==
    {<<>>, <<ProjectPolicy("policy1")>>, <<ProjectPolicy("policy2"), ProjectPolicy("policy1")>>}

\* the pages of ListDatasetEntries; an entry is a line of JSON text
DatasetEntryPages == {<<>>, <<"entry1">>, <<"entry2", "entry1">>}

\* the five print calls of display_project_policy
display_project_policy(project_policy) ==
    <<Line("print", "Policy name: " \o project_policy.PolicyName),
      Line("print", "Project Arn: " \o project_policy.ProjectArn),
      Line("print", "Document: " \o project_policy.PolicyDocument),
      Line("print", "Revision ID: " \o project_policy.PolicyRevisionId),
      Line("print", "")>>

\* `for project in response['ProjectPolicies']: display_project_policy(project)`
RECURSIVE display_project_policies(_)
display_project_policies(policies) ==
    IF policies = <<>> THEN <<>>
    ELSE display_project_policy(Head(policies)) \o display_project_policies(Tail(policies))

\* `for entry in response['DatasetEntries']: print(entry)`
RECURSIVE print_entries(_)
print_entries(entries) ==
    IF entries = <<>> THEN <<>>
    ELSE <<Line("print", Head(entries))>> \o print_entries(Tail(entries))

list_project_policies_request(project_arn, pagination_token) ==
    [ProjectArn |-> project_arn, MaxResults |-> 5, NextToken |-> pagination_token]

list_dataset_entries_request(dataset_arn, show_errors_only, next_token) ==
    [DatasetArn |-> dataset_arn, HasErrors |-> show_errors_only, MaxResults |-> 100,
     NextToken |-> next_token]

\* slip: the token of the first request is sent again
list_project_policies_token_kept(pagination_token, response) == pagination_token

\* `pagination_token = response['NextToken']`
list_project_policies_token(pagination_token, response) == response.NextToken

\* `next_token = next_token = response['NextToken']`
list_dataset_entries_token(next_token, response) == response.NextToken

list_project_policies ==
    /\ fn = "list_project_policies"
    /\ outcome = "running"
    /\ LET pagination_token == IF pc = "start" THEN "" ELSE Untag(local)
           header == IF pc = "start" THEN <<Line("print", "Projects\n--------")>> ELSE <<>>
       IN
       \E r \in ListResponses(ProjectPolicyPages) :
          /\ Allowed(r.ok /\ r.val.NextToken # NoToken)
          /\ Spend(r.ok /\ r.val.NextToken # NoToken)
          /\ Remote("list_project_policies",
                    list_project_policies_request(input, pagination_token), r)
          /\ IF ~r.ok
               THEN /\ out' = out \o header
                              \o <<Line("logger.exception", "Couldn't list policies")>>
                    /\ Raise(ClientError(r))
                    /\ UNCHANGED local
               ELSE /\ out' = out \o header \o display_project_policies(r.val.Items)
                    /\ IF r.val.NextToken # NoToken
                         THEN /\ local' = Str(list_project_policies_token(pagination_token, r.val))
                              /\ Continue("page")
                         ELSE /\ Return(Str(PyNone))
                              /\ UNCHANGED local
    /\ UNCHANGED <<fn, input, args, main_outcome, status>>

\* the values of the argument show_errors
ShowErrors == {"TRUE", "false"}

\* `show_errors.lower() == "true"`
show_errors_only(show_errors) == show_errors \in {"true", "True", "TRUE"}

\* the locals of list_dataset_entries between two requests
list_dataset_entries_locals(next_token, count, errors_only) ==
    [next_token |-> next_token, count |-> count, show_errors_only |-> errors_only]

\* one round of the loop, from the locals `l`
list_dataset_entries_round(l) ==
    \E r \in ListResponses(DatasetEntryPages) :
        /\ Allowed(r.ok /\ r.val.NextToken # NoToken)
        /\ Spend(r.ok /\ r.val.NextToken # NoToken)
        /\ Remote("list_dataset_entries",
                  list_dataset_entries_request(input, l.show_errors_only, l.next_token), r)
        /\ IF ~r.ok
             THEN /\ Log("logger.exception", "Couldn't list dataset")
                  /\ Raise(ClientError(r))
                  /\ local' = Rec(l)
             ELSE LET count == l.count + Len(r.val.Items) IN
                  IF r.val.NextToken = NoToken
                    THEN /\ out' = out \o print_entries(r.val.Items)
                                   \o <<Line("logger.info", "No more entries. Total:" \o ToString(count))>>
                         /\ local' = Rec(list_dataset_entries_locals(l.next_token, count, l.show_errors_only))
                         /\ Return(Str(PyNone))
                    ELSE /\ out' = out \o print_entries(r.val.Items)
                                   \o <<Line("logger.info", "Getting more entries. Total so far :" \o ToString(count))>>
                         /\ local' = Rec(list_dataset_entries_locals(
                                            list_dataset_entries_token(l.next_token, r.val),
                                            count, l.show_errors_only))
                         /\ Continue("page")

list_dataset_entries ==
    /\ fn = "list_dataset_entries"
    /\ outcome = "running"
    /\ IF pc = "start"
         THEN \E show_errors \in ShowErrors :
                 list_dataset_entries_round(
                     list_dataset_entries_locals("", 0, show_errors_only(show_errors)))
         ELSE list_dataset_entries_round(Untag(local))
    /\ UNCHANGED <<fn, input, args, main_outcome, status>>

----------------------------------------------------------------------------
(* custom_labels_delete_dataset.py *)

\* slip: every client error is taken for the end of the deletion
delete_dataset_except_any_code(code) == "deleted"

\* the inner `except ClientError` of the wait loop: "deleted" or re-raise
delete_dataset_except(code) ==
    IF code = "ResourceNotFoundException" THEN "deleted" ELSE "raise"

\* slip: the delete request is inside the wait loop
delete_dataset_while_with_request == "start"

\* where the next round of `while deleted is False` begins: at the describe
\* call, the delete request stays before the loop
delete_dataset_while == "poll"

delete_dataset ==
    /\ fn = "delete_dataset"
    /\ outcome = "running"
    /\ \/ /\ pc = "start"
          /\ \E r \in PlainResponses :
                /\ Remote("delete_dataset", input, r)
                /\ IF r.ok
                     THEN /\ Continue("poll")
                          /\ UNCHANGED out
                     ELSE /\ Log("logger.exception", "Couldn't delete dataset")
                          /\ Raise(ClientError(r))
                /\ UNCHANGED budget
       \/ /\ pc = "poll"
          /\ \E r \in DescribeDatasetResponses :
                /\ Allowed(r.ok)
                /\ Spend(r.ok)
                /\ IF r.ok
                     THEN /\ RemoteThenSleep("describe_dataset", input, r, 5)
                          /\ Continue(delete_dataset_while)
                          /\ UNCHANGED out
                     ELSE /\ Remote("describe_dataset", input, r)
                          /\ IF delete_dataset_except(r.code) = "deleted"
                               THEN /\ Return(Bool(TRUE))
                                    /\ UNCHANGED out
                               ELSE /\ Log("logger.exception", "Couldn't delete dataset")
                                    /\ Raise(ClientError(r))
    /\ UNCHANGED <<fn, input, args, main_outcome, status, local>>

----------------------------------------------------------------------------
(* bedrock-agent-runtime/flows/flow.py *)

\* slip: the handler returns None, as the docstring says, instead of raising
create_flow_returns_none ==
    /\ fn = "create_flow"
    /\ outcome = "running"
    /\ pc = "start"
    /\ \E r \in {Ok(FlowResponse("CreateFlow", "NotPrepared"))} \cup ClientErrors :
          /\ Remote("create_flow", input, r)
          /\ IF r.ok
               THEN /\ Return(Rec(r.val))
                    /\ UNCHANGED out
               ELSE /\ Log("logger.exception", "Client error creating flow")
                    /\ Return(Str(PyNone))
    /\ UNCHANGED <<fn, input, args, main_outcome, status, local, budget>>

create_flow ==
    /\ fn = "create_flow"
    /\ outcome = "running"
    /\ pc = "start"
    /\ \E r \in {Ok(FlowResponse("CreateFlow", "NotPrepared"))} \cup ClientErrors :
          /\ Remote("create_flow", input, r)
          /\ IF r.ok
               THEN /\ Return(Rec(r.val))
                    /\ UNCHANGED out
               ELSE /\ Log("logger.exception", "Client error creating flow")
                    /\ Raise(ClientError(r))
    /\ UNCHANGED <<fn, input, args, main_outcome, status, local, budget>>

\* slip: `while status != "Prepared"`
prepare_flow_while_not_prepared(s) == s # "Prepared"

\* the `while status == "Preparing"` test
prepare_flow_while(s) == s = "Preparing"

\* the log line after the loop: a warning unless the flow is prepared
prepare_flow_log(s) ==
    IF s = "Prepared" THEN <<>> ELSE <<Line("logger.warning", "flow not prepared")>>

prepare_flow ==
    /\ fn = "flow.prepare_flow"
    /\ outcome = "running"
    /\ \/ /\ pc = "start"
          /\ \E r \in PrepareFlowResponses :
                /\ Allowed(r.ok /\ r.val.status = "Preparing")
                /\ Spend(r.ok /\ r.val.status = "Preparing")
                /\ IF ~r.ok
                     THEN /\ Remote("prepare_flow", input, r)
                          /\ Log("logger.exception", "Client error preparing flow")
                          /\ Raise(ClientError(r))
                          /\ UNCHANGED status
                     ELSE /\ status' = r.val.status
                          /\ IF prepare_flow_while(r.val.status)
                               THEN /\ RemoteThenSleep("prepare_flow", input, r, 5)
                                    /\ Continue("poll")
                                    /\ UNCHANGED out
                               ELSE /\ Remote("prepare_flow", input, r)
                                    /\ out' = out \o prepare_flow_log(r.val.status)
                                    /\ Return(Str(r.val.status))
       \/ /\ pc = "poll"
          /\ \E r \in GetFlowResponses :
                /\ Allowed(r.ok /\ r.val.status = "Preparing")
                /\ Spend(r.ok /\ r.val.status = "Preparing")
                /\ IF ~r.ok
                     THEN /\ Remote("get_flow", input, r)
                          /\ Log("logger.exception", "Client error preparing flow")
                          /\ Raise(ClientError(r))
                          /\ UNCHANGED status
                     ELSE /\ status' = r.val.status
                          /\ IF prepare_flow_while(r.val.status)
                               THEN /\ RemoteThenSleep("get_flow", input, r, 5)
                                    /\ out' = Append(out, Line("print", "Flow Status"))
                                    /\ Continue("poll")
                               ELSE /\ Remote("get_flow", input, r)
                                    /\ out' = Append(out, Line("print", "Flow Status"))
                                                \o prepare_flow_log(r.val.status)
                                    /\ Return(Str(r.val.status))
    /\ UNCHANGED <<fn, input, args, main_outcome, local>>

\* slip: the resource-in-use check is not skipped
delete_flow_request_checks_use(flow_id) ==
    [flowIdentifier |-> flow_id, skipResourceInUseCheck |-> FALSE]

\* the parameters of the DeleteFlow request
delete_flow_request(flow_id) ==
    [flowIdentifier |-> flow_id, skipResourceInUseCheck |-> TRUE]

delete_flow ==
    /\ fn = "delete_flow"
    /\ outcome = "running"
    /\ pc = "start"
    /\ \E r \in {Ok(FlowResponse("DeleteFlow", PyNone))} \cup ClientErrors :
          /\ Remote("delete_flow", delete_flow_request(input), r)
          /\ IF r.ok
               THEN /\ Return(Rec(r.val))
                    /\ UNCHANGED out
               ELSE /\ Log("logger.exception", "Client error deleting flow")
                    /\ Raise(ClientError(r))
    /\ UNCHANGED <<fn, input, args, main_outcome, status, local, budget>>

get_flow ==
    /\ fn = "get_flow"
    /\ outcome = "running"
    /\ pc = "start"
    /\ \E r \in GetFlowResponses :
          /\ Remote("get_flow", input, r)
          /\ IF r.ok
               THEN /\ Return(Rec(r.val))
                    /\ UNCHANGED out
               ELSE /\ Log("logger.exception", "Client error getting flow")
                    /\ Raise(ClientError(r))
    /\ UNCHANGED <<fn, input, args, main_outcome, status, local, budget>>

----------------------------------------------------------------------------
(* bedrock-agent-runtime/flows/prepare_flow.py *)

\* the print chosen by the `except ClientError` handler
prepare_flow_py_except(code) ==
    IF code = "ResourceNotFoundException" THEN "Flow not found"
    ELSE IF code = "AccessDeniedException" THEN "You don't have permission to access this flow"
    ELSE "Error getting flow details"

\* errors that are not client errors: the connection to the endpoint fails
UnexpectedErrors == {Err("EndpointConnectionError", "Could not connect to the endpoint URL")}

\* what boto3.client raises when no region is configured
ClientCreationErrors == {Err("NoRegionError", "You must specify a region.")}

\* slip: the `except Exception` clause is missing
prepare_flow_py_handler_client_only(r) ==
    IF r \in ClientErrors THEN "except ClientError" ELSE "none"

\* the except clause of the try statement that catches the error r
prepare_flow_py_handler(r) ==
    IF r \in ClientErrors THEN "except ClientError" ELSE "except Exception"

\* prepare_flow after the error r was raised inside its try statement
prepare_flow_py_failed(r) ==
    LET handler == prepare_flow_py_handler(r) IN
    IF handler = "except ClientError"
      THEN /\ Log("print", prepare_flow_py_except(r.code))
           /\ Return(Str(PyNone))
    ELSE IF handler = "except Exception"
      THEN /\ Log("print", "Unexpected error")
           /\ Return(Str(PyNone))
    ELSE /\ Raise(Exception(r.code))
         /\ UNCHANGED out

prepare_flow_py ==
    /\ fn = "prepare_flow.prepare_flow"
    /\ outcome = "running"
    /\ \/ /\ pc = "start"
          /\ \E r \in ClientCreationErrors :
                /\ prepare_flow_py_failed(r)
                /\ UNCHANGED <<status, local, budget, trace>>
       \/ /\ pc = "start"
          /\ \E r \in PrepareFlowResponses \cup UnexpectedErrors :
                /\ Allowed(r.ok /\ r.val.status = "Preparing")
                /\ Spend(r.ok /\ r.val.status = "Preparing")
                /\ IF ~r.ok
                     THEN /\ Remote("prepare_flow", input, r)
                          /\ prepare_flow_py_failed(r)
                          /\ UNCHANGED <<status, local>>
                     ELSE /\ status' = r.val.status
                          /\ local' = Rec(r.val)
                          /\ IF r.val.status = "Preparing"
                               THEN /\ RemoteThenSleep("prepare_flow", input, r, 5)
                                    /\ out' = out \o <<Line("print", "Flow ID"), Line("print", "Flow Status"),
                                                       Line("print", "Preparing flow")>>
                                    /\ Continue("poll")
                               ELSE /\ Remote("prepare_flow", input, r)
                                    /\ out' = out \o <<Line("print", "Flow ID"), Line("print", "Flow Status"),
                                                       Line("print", "Flow is not preparing")>>
                                    /\ Return(Rec(r.val))
       \/ /\ pc = "poll"
          /\ \E r \in GetFlowResponses \cup UnexpectedErrors :
                /\ Allowed(r.ok /\ r.val.status = "Preparing")
                /\ Spend(r.ok /\ r.val.status = "Preparing")
                /\ IF ~r.ok
                     THEN /\ Remote("get_flow", input, r)
                          /\ prepare_flow_py_failed(r)
                          /\ UNCHANGED <<status, local>>
                     ELSE /\ status' = r.val.status
                          /\ local' = Rec(r.val)
                          /\ IF r.val.status = "Preparing"
                               THEN /\ RemoteThenSleep("get_flow", input, r, 5)
                                    /\ out' = out \o <<Line("print", "Flow Status"), Line("print", "Preparing flow")>>
                                    /\ Continue("poll")
                               ELSE /\ Remote("get_flow", input, r)
                                    /\ out' = Append(out, Line("print", "Flow Status"))
                                    /\ Return(Rec(r.val))
    /\ UNCHANGED <<fn, input, args, main_outcome>>

----------------------------------------------------------------------------
(* bedrock-agent-runtime/flows/flow_alias.py *)

\* flow versions, alias identifiers, names and descriptions a caller may pass
FlowVersions == {"1", "DRAFT"}

AliasIds == {"ALIAS1", "ALIAS2"}

AliasNames == {"latest"}

AliasDescriptions == {"", "Alias for the flow"}

\* slip: the draft version is routed to as well
create_flow_alias_request_two_routes(flow_id, flow_version, name, description) ==
    [flowIdentifier |-> flow_id, name |-> name, description |-> description,
     routingConfiguration |-> <<[flowVersion |-> flow_version], [flowVersion |-> "DRAFT"]>>]

\* the parameters of the CreateFlowAlias request
create_flow_alias_request(flow_id, flow_version, name, description) ==
    [flowIdentifier |-> flow_id, name |-> name, description |-> description,
     routingConfiguration |-> <<[flowVersion |-> flow_version]>>]

\* the arguments of the call are kept in `local`
create_flow_alias ==
    /\ fn = "create_flow_alias"
    /\ outcome = "running"
    /\ pc = "start"
    /\ \E flow_version \in FlowVersions, name \in AliasNames, description \in AliasDescriptions,
          r \in {Ok([FlowResponse("CreateFlowAlias", PyNone) EXCEPT !.id = a]) : a \in AliasIds}
                   \cup ClientErrors :
          /\ local' = Rec([flow_version |-> flow_version, name |-> name, description |-> description])
          /\ Remote("create_flow_alias",
                    create_flow_alias_request(input, flow_version, name, description), r)
          /\ IF r.ok
               THEN /\ Return(Str(r.val.id))
                    /\ UNCHANGED out
               ELSE /\ Log("logging.exception", "Client error creating alias for flow")
                    /\ Raise(ClientError(r))
    /\ UNCHANGED <<fn, input, args, main_outcome, status, budget>>

\* the parameters of the DeleteFlowAlias request
delete_flow_alias_request(flow_id, flow_alias_id) ==
    [aliasIdentifier |-> flow_alias_id, flowIdentifier |-> flow_id]

delete_flow_alias ==
    /\ fn = "delete_flow_alias"
    /\ outcome = "running"
    /\ pc = "start"
    /\ \E flow_alias_id \in AliasIds,
          r \in {Ok([FlowResponse("DeleteFlowAlias", PyNone) EXCEPT !.id = a]) : a \in AliasIds}
                   \cup ClientErrors :
          /\ local' = Rec([flow_alias_id |-> flow_alias_id])
          /\ Remote("delete_flow_alias", delete_flow_alias_request(input, flow_alias_id), r)
          /\ IF r.ok
               THEN /\ Return(Rec(r.val))
                    /\ UNCHANGED out
               ELSE /\ Log("logging.exception", "Client error deleting flow version")
                    /\ Raise(ClientError(r))
    /\ UNCHANGED <<fn, input, args, main_outcome, status, budget>>

----------------------------------------------------------------------------
(* bedrock-agent-runtime/flows/flow_version.py *)

create_flow_version ==
    /\ fn = "create_flow_version"
    /\ outcome = "running"
    /\ pc = "start"
    /\ \E r \in {Ok(FlowResponse("CreateFlowVersion", PyNone))} \cup ClientErrors :
          /\ Remote("create_flow_version", input, r)
          /\ IF r.ok
               THEN /\ Return(Str(r.val.version))
                    /\ UNCHANGED out
               ELSE /\ Log("logging.exception", "Client error creating flow")
                    /\ Raise(ClientError(r))
    /\ UNCHANGED <<fn, input, args, main_outcome, status, local, budget>>

get_flow_version ==
    /\ fn = "get_flow_version"
    /\ outcome = "running"
    /\ pc = "start"
    /\ \E r \in {Ok(FlowResponse("GetFlowVersion", "Prepared"))} \cup ClientErrors :
          /\ Remote("get_flow_version", input, r)
          /\ IF r.ok
               THEN /\ Return(Rec(r.val))
                    /\ UNCHANGED out
               ELSE /\ Log("logging.exception", "Client error getting flow version")
                    /\ Raise(ClientError(r))
    /\ UNCHANGED <<fn, input, args, main_outcome, status, local, budget>>

delete_flow_version ==
    /\ fn = "delete_flow_version"
    /\ outcome = "running"
    /\ pc = "start"
    /\ \E r \in {Ok(FlowResponse("DeleteFlowVersion", PyNone))} \cup ClientErrors :
          /\ Remote("delete_flow_version", input, r)
          /\ IF r.ok
               THEN /\ Return(Rec(r.val))
                    /\ UNCHANGED out
               ELSE /\ Log("logging.exception", "Client error deleting flow version")
                    /\ Raise(ClientError(r))
    /\ UNCHANGED <<fn, input, args, main_outcome, status, local, budget>>

----------------------------------------------------------------------------
(* rekognition/custom_labels_create_project.py *)

\* slip: the handler logs the error and forgets the `raise`
create_project_no_raise ==
    /\ fn = "create_project"
    /\ outcome = "running"
    /\ pc = "start"
    /\ \E r \in {Ok("arn:project/new")} \cup ClientErrors :
          /\ Remote("create_project", input, r)
          /\ IF r.ok
               THEN /\ Return(Str(r.val))
                    /\ UNCHANGED out
               ELSE /\ Log("logger.exception", "Couldn't create project")
                    /\ Return(Str(PyNone))
    /\ UNCHANGED <<fn, input, args, main_outcome, status, local, budget>>

create_project ==
    /\ fn = "create_project"
    /\ outcome = "running"
    /\ pc = "start"
    /\ \E r \in {Ok("arn:project/new")} \cup ClientErrors :
          /\ Remote("create_project", input, r)
          /\ IF r.ok
               THEN /\ Return(Str(r.val))
                    /\ UNCHANGED out
               ELSE /\ Log("logger.exception", "Couldn't create project")
                    /\ Raise(ClientError(r))
    /\ UNCHANGED <<fn, input, args, main_outcome, status, local, budget>>

----------------------------------------------------------------------------
(* bedrock-agent-runtime/code-interpreter/code_interpreter_example.py *)

\* bytes.decode(): the bytes below 128 are the characters themselves; a lone
\* byte from 128 on is not valid UTF-8
\* bytes.decode(): the code points of a UTF-8 byte string of one- and
\* two-byte sequences; DecodeError where Python raises UnicodeDecodeError
DecodeError == <<-1>>

RECURSIVE decode(_)
decode(bytes) ==
    IF bytes = <<>> THEN <<>>
    ELSE IF bytes[1] < 128
      THEN LET rest == decode(Tail(bytes)) IN
           IF rest = DecodeError THEN DecodeError ELSE <<bytes[1]>> \o rest
    ELSE IF /\ bytes[1] >= 194 /\ bytes[1] <= 223 /\ Len(bytes) >= 2
            /\ bytes[2] >= 128 /\ bytes[2] <= 191
      THEN LET rest == decode(Tail(Tail(bytes))) IN
           IF rest = DecodeError THEN DecodeError
           ELSE <<(bytes[1] - 192) * 64 + (bytes[2] - 128)>> \o rest
    ELSE DecodeError

Decodable(bytes) == decode(bytes) # DecodeError

\* slip: the decoded chunk is put in front of the text
completion_add_in_front(completion, decoded) == decoded \o completion

\* `completion += chunk["bytes"].decode()`
completion_add(completion, decoded) == completion \o decoded

\* the entries that one "files" event adds to `images`
RECURSIVE FileImages(_)
FileImages(files) ==
    IF files = <<>> THEN <<>>
    ELSE LET f == Head(files) IN
         (IF f.bytes # <<>> THEN <<[data |-> f.bytes, content_type |-> f.type]>> ELSE <<>>)
            \o FileImages(Tail(files))

\* the loop over response["completion"], from the accumulated result `acc`
RECURSIVE ProcessCompletion(_, _)
ProcessCompletion(events, acc) ==
    IF events = <<>> \/ acc.error THEN acc
    ELSE LET e == Head(events)
             bad == e.hasChunk /\ e.hasBytes /\ ~Decodable(e.bytes)
             text == IF e.hasChunk /\ e.hasBytes /\ ~bad
                       THEN completion_add(acc.text, decode(e.bytes)) ELSE acc.text
             images == IF e.hasFiles THEN acc.images \o FileImages(e.files) ELSE acc.images
         IN  IF bad
               THEN [acc EXCEPT !.error = TRUE]
               ELSE ProcessCompletion(Tail(events), [text |-> text, images |-> images, error |-> FALSE])

\* file paths a caller may pass, as sequences of characters
FilePaths ==
    {<<"d", ".", "c", "s", "v">>,
     <<"t", ".", "d", "/", "R", ".", "J", "S", "O", "N">>,
     <<"a", ".", "p", "y">>,
     <<"P", ".", "P", "n", "g">>,
     <<".", "p", "n", "g">>,
     <<"d", ".", "c", "s", "v", "/", "n", "o", "e", "x", "t">>,
     <<"a", ".", "t", "x", "t", ".", "g", "z">>,
     <<"a", ".", "t", "x", "t">>,
     <<"a", ".", "j", "p", "g">>,
     <<"a", ".", "j", "p", "e", "g">>,
     <<"a", ".", "x", "l", "s", "x">>,
     <<"a", ".", "x", "l", "s">>,
     <<"a", ".", "p", "d", "f">>}

\* os.path.basename: what follows the last "/"
basename(path) ==
    LET seps == {i \in DOMAIN path : path[i] = "/"} IN
    IF seps = {} THEN path
    ELSE SubSeq(path, (CHOOSE i \in seps : \A j \in seps : j <= i) + 1, Len(path))

\* os.path.splitext(name)[1] of a name without "/": from the last "." on,
\* empty when there is no "." or only "." come before it
splitext_ext(name) ==
    LET dots == {i \in DOMAIN name : name[i] = "."} IN
    IF dots = {} THEN <<>>
    ELSE LET dotIndex == CHOOSE i \in dots : \A j \in dots : j <= i IN
         IF \E i \in 1..(dotIndex - 1) : name[i] # "."
           THEN SubSeq(name, dotIndex, Len(name))
           ELSE <<>>

\* str.lower, on the letters that occur in FilePaths
str_lower(t) ==
    [i \in DOMAIN t |->
        CASE t[i] = "R" -> "r" [] t[i] = "J" -> "j" [] t[i] = "S" -> "s"
          [] t[i] = "O" -> "o" [] t[i] = "N" -> "n" [] t[i] = "P" -> "p"
          [] OTHER -> t[i]]

\* slip: the extension is looked up as written, not lower-cased
file_extension_as_written(file_name) == splitext_ext(file_name)

\* `file_extension = os.path.splitext(file_name)[1].lower()`
file_extension(file_name) == str_lower(splitext_ext(file_name))

\* the table `content_types`
content_types ==
    {<< <<".", "c", "s", "v">>, "text/csv" >>,
     << <<".", "j", "s", "o", "n">>, "application/json" >>,
     << <<".", "t", "x", "t">>, "text/plain" >>,
     << <<".", "p", "y">>, "text/x-python" >>,
     << <<".", "j", "p", "g">>, "image/jpeg" >>,
     << <<".", "j", "p", "e", "g">>, "image/jpeg" >>,
     << <<".", "p", "n", "g">>, "image/png" >>,
     << <<".", "x", "l", "s", "x">>,
        "application/vnd.openxmlformats-officedocument.spreadsheetml.sheet" >>,
     << <<".", "x", "l", "s">>, "application/vnd.ms-excel" >>,
     << <<".", "p", "d", "f">>, "application/pdf" >>}

\* `content_types.get(file_extension, 'application/octet-stream')`
_get_content_type(ext) ==
    IF \E e \in content_types : e[1] = ext
      THEN (CHOOSE e \in content_types : e[1] = ext)[2]
      ELSE "application/octet-stream"

\* the InvokeAgent request: the input file of the session state
invoke_agent_request(agent_id, file_path) ==
    [agentId |-> agent_id,
     name |-> basename(file_path),
     path |-> file_path,
     mediaType |-> _get_content_type(file_extension(basename(file_path)))]

invoke_agent_with_file ==
    /\ fn = "invoke_agent_with_file"
    /\ outcome = "running"
    /\ pc = "start"
    /\ \E readable \in BOOLEAN, file_path \in FilePaths :
          IF ~readable
            \* open(file_path, 'rb') fails
            THEN /\ Raise(Exception("OSError"))
                 /\ UNCHANGED <<trace, out>>
            ELSE \E r \in {Ok(c) : c \in CompletionStreams} \cup ClientErrors :
                   /\ Remote("invoke_agent", invoke_agent_request(input, file_path), r)
                   /\ IF ~r.ok
                        THEN /\ Log("logger.error", "Couldn't invoke agent with code interpreter.")
                             /\ Raise(ClientError(r))
                        ELSE LET result == ProcessCompletion(r.val, [text |-> <<>>, images |-> <<>>, error |-> FALSE]) IN
                             /\ UNCHANGED out
                             /\ IF result.error
                                  THEN Raise(Exception("UnicodeDecodeError"))
                                  ELSE Return(Rec([text |-> result.text, images |-> result.images]))
    /\ UNCHANGED <<fn, input, args, main_outcome, status, local, budget>>

----------------------------------------------------------------------------
(* bedrock-agent-runtime/flows/run_flow.py *)

\* invoke_flow: the loop over response['responseStream']; the result is the
\* flow status and the lines printed
RECURSIVE invoke_flow_stream(_, _)
invoke_flow_stream(events, acc) ==
    IF events = <<>> THEN acc
    ELSE LET e == Head(events) IN
         invoke_flow_stream(Tail(events),
            IF e.kind = "flowCompletionEvent"
              THEN [acc EXCEPT !.flow_status = e.reason]
            ELSE IF e.kind = "flowOutputEvent"
              THEN [acc EXCEPT !.printed = Append(@, Line("print", "document"))]
            ELSE acc)

run_playlist_flow ==
    /\ fn = "run_playlist_flow"
    /\ outcome = "running"
    /\ pc = "start"
    /\ \E number \in {"3", "three"} :
          IF number = "three"
            \* int(input("Enter number of songs: ")) of a non-number
            THEN /\ out' = Append(out, Line("print", "Welcome to the playlist generator flow."))
                 /\ Raise(Exception("ValueError"))
                 /\ UNCHANGED trace
            ELSE \E r \in {Ok(f) : f \in FlowStreams} \cup ClientErrors :
                   /\ Remote("invoke_flow", input, r)
                   /\ Return(Str(PyNone))
                   /\ IF ~r.ok
                        THEN out' = out \o <<Line("print", "Welcome to the playlist generator flow."),
                                            Line("print", "Client error"),
                                            Line("logger.error", "Client error")>>
                        ELSE LET result == invoke_flow_stream(r.val, [flow_status |-> "", printed |-> <<>>]) IN
                             out' = out \o <<Line("print", "Welcome to the playlist generator flow.")>>
                                        \o result.printed
                                        \o (IF result.flow_status = "SUCCESS" THEN <<>>
                                            ELSE <<Line("print", "Status not supported")>>)
    /\ UNCHANGED <<fn, input, args, main_outcome, status, local, budget>>

----------------------------------------------------------------------------
(* bedrock-agent-runtime/agent.py *)

\* slip: the line is compared as it was typed
LowerAsTyped(t) == t

\* str.lower() on the lines a user may type
Lower(t) == IF t \in {"quit", "Quit", "QUIT"} THEN "quit" ELSE t

\* slip: the handler goes on with the chat
chat_with_agent_except_continue == "continue"

\* what the `except ClientError` handler of the chat loop does
chat_with_agent_except == "break"

\* one round of `while True`, with the session id `sid`; the line read by
\* input("You: ") is written to `out` on the channel "input"
chat_with_agent_round(sid) ==
    \E user_message \in UserMessages :
        IF Lower(user_message) = "quit"
          THEN /\ out' = out \o <<Line("input", user_message),
                                      Line("print", "Ending chat session...")>>
               /\ Return(Str(PyNone))
               /\ UNCHANGED <<trace, budget>>
          ELSE \E r \in {Ok(c) : c \in ChatStreams} \cup ClientErrors :
                 \* the user sends a bounded number of messages
                 /\ Allowed(TRUE)
                 /\ Spend(TRUE)
                 /\ Remote("invoke_agent", [sessionId |-> sid, inputText |-> user_message], r)
                 /\ IF ~r.ok
                      THEN /\ out' = out \o <<Line("input", user_message),
                                                  Line("print", "Error occurred")>>
                           /\ IF chat_with_agent_except = "break"
                                THEN Return(Str(PyNone))
                                ELSE Continue("loop")
                      ELSE LET chunks == SelectSeq(r.val, LAMBDA e : e.hasChunk)
                               bad == \E i \in DOMAIN chunks :
                                         ~chunks[i].hasBytes \/ ~Decodable(chunks[i].bytes)
                           IN  IF bad
                                 \* KeyError or UnicodeDecodeError, not caught
                                 THEN /\ Raise(Exception("decode"))
                                      /\ out' = Append(out, Line("input", user_message))
                                 ELSE /\ out' = out \o <<Line("input", user_message)>>
                                                \o [i \in 1..Len(chunks) |-> Line("print", "Agent:")]
                                                \o <<Line("print", "-----")>>
                                      /\ Continue("loop")

chat_with_agent ==
    /\ fn = "chat_with_agent"
    /\ outcome = "running"
    /\ \/ /\ pc = "start"
          /\ \E sid \in SessionIds :
                /\ local' = Str(sid)
                /\ chat_with_agent_round(sid)
       \/ /\ pc = "loop"
          /\ chat_with_agent_round(Untag(local))
          /\ UNCHANGED local
    /\ UNCHANGED <<fn, input, args, main_outcome, status>>

----------------------------------------------------------------------------
(* bedrock-agent-runtime/flows/roles.py *)

\* PolicyName of the put_role_policy call of create_flow_role:
\* f"{role_name}-policy", kept as the pair of its two parts
create_flow_role_policy_name(role_name) == <<role_name, "-policy">>

\* slip: update_role_policy writes a policy of its own
update_role_policy_policy_name_updated(role_name) == <<role_name, "-updated-policy">>

\* PolicyName of the put_role_policy call of update_role_policy
update_role_policy_policy_name(role_name) == <<role_name, "-policy">>

create_flow_role ==
    /\ fn = "create_flow_role"
    /\ outcome = "running"
    /\ \/ /\ pc = "start"
          /\ \E r \in {Ok([Arn |-> "arn:role", RoleName |-> input])} \cup ClientErrors :
                /\ Remote("create_role", [RoleName |-> input, PolicyName |-> NoValue], r)
                /\ IF r.ok
                     THEN /\ local' = Str(r.val)
                          /\ out' = out \o <<Line("print", "Creating role"), Line("print", "Attaching inline policy")>>
                          /\ Continue("put")
                     ELSE /\ out' = out \o <<Line("print", "Creating role"), Line("print", "Error creating role")>>
                          /\ Raise(ClientError(r))
                          /\ UNCHANGED local
       \/ /\ pc = "put"
          /\ \E r \in PlainResponses :
                /\ Remote("put_role_policy", [RoleName |-> input, PolicyName |-> create_flow_role_policy_name(input)], r)
                /\ IF r.ok
                     THEN /\ Log("print", "Role ARN")
                          /\ Return(local)
                     ELSE /\ Log("print", "Error creating role")
                          /\ Raise(ClientError(r))
                /\ UNCHANGED local
    /\ UNCHANGED <<fn, input, args, main_outcome, status, budget>>

update_role_policy ==
    /\ fn = "update_role_policy"
    /\ outcome = "running"
    /\ pc = "start"
    /\ \E r \in PlainResponses :
          /\ Remote("put_role_policy", [RoleName |-> input, PolicyName |-> update_role_policy_policy_name(input)], r)
          /\ IF r.ok
               THEN /\ Log("print", "Upsdated policy for role")
                    /\ Return(Str(PyNone))
               ELSE /\ Log("print", "Error updating role policy")
                    /\ Raise(ClientError(r))
    /\ UNCHANGED <<fn, input, args, main_outcome, status, local, budget>>

\* slip: a failed policy deletion is passed over
delete_flow_role_after_ignoring_errors(r) == "next policy"

\* where the for loop goes after the answer r to DeleteRolePolicy
delete_flow_role_after(r) == IF r.ok THEN "next policy" ELSE "except ClientError"

delete_flow_role ==
    /\ fn = "delete_flow_role"
    /\ outcome = "running"
    /\ \/ /\ pc = "start"
          /\ \E r \in {Ok(p) : p \in PolicyNameLists} \cup ClientErrors :
                /\ Remote("list_role_policies", [RoleName |-> input, PolicyName |-> NoValue], r)
                /\ IF r.ok
                     THEN /\ local' = Tup(r.val)
                          /\ Continue("delete")
                          /\ UNCHANGED out
                     ELSE /\ Log("print", "Error deleting role")
                          /\ Raise(ClientError(r))
                          /\ UNCHANGED local
       \/ /\ pc = "delete"
          /\ Untag(local) # <<>>
          /\ \E r \in PlainResponses :
                /\ Remote("delete_role_policy", [RoleName |-> input, PolicyName |-> Head(Untag(local))], r)
                /\ IF delete_flow_role_after(r) = "next policy"
                     THEN /\ local' = Tup(Tail(Untag(local)))
                          /\ Continue("delete")
                          /\ UNCHANGED out
                     ELSE /\ Log("print", "Error deleting role")
                          /\ Raise(ClientError(r))
                          /\ UNCHANGED local
       \/ /\ pc = "delete"
          /\ Untag(local) = <<>>
          /\ \E r \in PlainResponses :
                /\ Remote("delete_role", [RoleName |-> input, PolicyName |-> NoValue], r)
                /\ IF r.ok
                     THEN /\ Log("print", "Deleted role")
                          /\ Return(Str(PyNone))
                     ELSE /\ Log("print", "Error deleting role")
                          /\ Raise(ClientError(r))
                /\ UNCHANGED local
    /\ UNCHANGED <<fn, input, args, main_outcome, status, budget>>

----------------------------------------------------------------------------
(* rekognition/custom_labels_start_model.py *)

start_model ==
    /\ fn = "start_model"
    /\ outcome = "running"
    /\ \/ /\ pc = "start"
          /\ \E r \in PlainResponses :
                /\ Remote("start_project_version", [ProjectVersionArn |-> ModelArn(args.project_name, args.version_name)], r)
                /\ IF r.ok
                     THEN /\ Continue("wait")
                          /\ UNCHANGED out
                     ELSE /\ Log("logger.exception", "Client error: Problem starting model")
                          /\ Raise(ClientError(r))
       \/ /\ pc = "wait"
          \* project_version_running_waiter.wait: a WaiterError is no ClientError
          /\ \E r \in {Ok("waited"), Err("WaiterError", "Waiter ProjectVersionRunning failed")} :
                /\ Remote("waiter.wait", get_model_status_request, r)
                /\ UNCHANGED out
                /\ IF r.ok
                     THEN Continue("status")
                     ELSE Raise(Exception("WaiterError"))
       \/ /\ pc = "status"
          /\ \E r \in DescribeProjectVersionsResponses :
                /\ Remote("describe_project_versions", get_model_status_request, r)
                /\ IF ~r.ok
                     THEN /\ Log("logger.exception", "Client error: Problem starting model")
                          /\ Raise(ClientError(r))
                     ELSE LET g == get_model_status(r) IN
                          IF g.raised
                            THEN /\ Log("logger.exception", "Model not found")
                                 /\ Raise(Exception("Model not found"))
                            ELSE /\ Return(Str(g.status))
                                 /\ UNCHANGED out
    /\ UNCHANGED <<fn, input, args, main_outcome, status, local, budget>>

----------------------------------------------------------------------------
(* The invocation *)

----------------------------------------------------------------------------
(* the main functions of the scripts whose wrapper polls *)

\* the wrappers that their script's main calls
MainFns ==
    {"create_dataset", "create_dataset_from_existing_dataset",
     "update_dataset_entries", "stop_model", "copy_model",
     "distribute_dataset_entries", "delete_model", "delete_project",
     "delete_dataset", "prepare_flow.prepare_flow",
     "delete_model.main", "delete_project_policy.main"}

\* the exception classes that the try statement of main has a clause for:
\* ClientError is tried first, `except Exception` catches everything else
main_except(f) ==
    IF f \in {"create_dataset_from_existing_dataset", "update_dataset_entries",
              "stop_model", "distribute_dataset_entries"}
      THEN {"ClientError", "Exception"}
    ELSE IF f = "prepare_flow.prepare_flow" THEN {}
    ELSE {"ClientError"}

\* what the matching except clause of main writes
main_except_lines(f, type) ==
    CASE f \in {"create_dataset", "create_dataset_from_existing_dataset"} ->
            <<Line("logger.exception", "Problem creating dataset"),
              Line("print", "Problem creating dataset")>>
      [] f = "update_dataset_entries" ->
            <<Line("logger.exception", "Problem updating dataset"),
              Line("print", "Problem updating dataset")>>
      [] f = "stop_model" ->
            <<Line("logger.exception", "Problem stopping model"),
              Line("print", "Failed to stop model")>>
      [] f = "copy_model" -> <<Line("print", "Problem copying model")>>
      [] f = "distribute_dataset_entries" ->
            <<Line("logger.exception", "Problem distributing datasets"),
              Line("print", IF type = "ClientError" THEN "Problem listing dataset labels"
                                                    ELSE "Problem distributing datasets")>>
      [] f \in {"delete_model", "delete_model.main"} ->
            <<Line("print", "Problem deleting model")>>
      [] f = "delete_project_policy.main" ->
            <<Line("print", "Couldn't delete project policy in")>>
      [] f = "delete_project" ->
            <<Line("logger.exception", "Problem deleting project"),
              Line("print", "Problem deleting project")>>
      [] f = "delete_dataset" ->
            <<Line("logger.exception", "Problem deleting dataset"),
              Line("print", "Problem deleting dataset")>>
      [] OTHER -> <<>>

\* what main prints after the wrapper returned
main_finished_lines(f) ==
    CASE f \in {"create_dataset", "create_dataset_from_existing_dataset"} ->
            <<Line("print", "Finished creating dataset")>>
      [] f = "update_dataset_entries" -> <<Line("print", "Finished updates dataset")>>
      [] f = "stop_model" ->
            <<Line("print", "Finished stopping model"), Line("print", "Status")>>
      [] f = "copy_model" ->
            <<Line("print", "Finished copying model"), Line("print", "Status")>>
      [] f = "distribute_dataset_entries" ->
            <<Line("print", "Finished distributing datasets.")>>
      [] f \in {"delete_model", "delete_model.main"} ->
            <<Line("print", "Finished deleting model")>>
      [] f = "delete_project_policy.main" ->
            <<Line("print", "Finished deleting project policy")>>
      [] f = "delete_project" -> <<Line("print", "Finished deleting project")>>
      [] f = "delete_dataset" -> <<Line("print", "Finished deleting dataset")>>
      [] OTHER -> <<>>

\* main, from the point where the wrapper it called returns or raises: it
\* prints and ends, or the exception leaves main unhandled
main ==
    /\ fn \in MainFns
    /\ outcome # "running"
    /\ main_outcome = "none"
    /\ IF outcome = "returned"
         THEN /\ out' = out \o main_finished_lines(fn)
              /\ main_outcome' = "ended"
         ELSE IF exc.type \in main_except(fn)
           THEN /\ out' = out \o main_except_lines(fn, exc.type)
                /\ main_outcome' = "ended"
           ELSE /\ main_outcome' = "unhandled"
                /\ UNCHANGED out
    /\ UNCHANGED <<fn, pc, outcome, ret, exc, status, local, input, args, budget, trace>>

----------------------------------------------------------------------------

Wrappers ==
    {"create_dataset", "create_dataset_from_existing_dataset",
     "update_dataset_entries", "stop_model", "copy_model",
     "distribute_dataset_entries", "delete_model", "delete_project",
     "delete_dataset", "create_flow", "flow.prepare_flow", "delete_flow",
     "get_flow", "prepare_flow.prepare_flow", "create_flow_alias",
     "delete_flow_alias", "create_flow_version", "get_flow_version",
     "delete_flow_version", "create_project", "invoke_agent_with_file",
     "run_playlist_flow", "chat_with_agent", "create_flow_role",
     "update_role_policy", "delete_flow_role", "start_model",
     "list_project_policies", "list_dataset_entries",
     "delete_model.main", "delete_project_policy.main"}

Init ==
    /\ fn \in Wrappers
    /\ pc = "start"
    /\ outcome = "running"
    /\ ret = Unset
    /\ exc = NoExc
    /\ status = ""
    /\ local = Unset
    /\ input \in Ids
    /\ args \in ArgsOf(fn)
    /\ budget = MaxPolls
    /\ trace = <<>>
    /\ out = <<>>
    /\ main_outcome = "none"

Next ==
    \/ create_dataset
    \/ delete_model_main
    \/ delete_project_policy_main
    \/ list_project_policies
    \/ list_dataset_entries
    \/ create_dataset_from_existing_dataset
    \/ update_dataset_entries
    \/ stop_model
    \/ copy_model
    \/ distribute_dataset_entries
    \/ delete_model
    \/ delete_project
    \/ delete_dataset
    \/ create_flow
    \/ prepare_flow
    \/ delete_flow
    \/ get_flow
    \/ prepare_flow_py
    \/ create_flow_alias
    \/ delete_flow_alias
    \/ create_flow_version
    \/ get_flow_version
    \/ delete_flow_version
    \/ create_project
    \/ invoke_agent_with_file
    \/ run_playlist_flow
    \/ chat_with_agent
    \/ create_flow_role
    \/ update_role_policy
    \/ delete_flow_role
    \/ start_model
    \/ main

Spec == Init /\ [][Next]_vars

\* the calling thread runs the wrapper until it returns or raises
LiveSpec == Spec /\ WF_vars(Next)

----------------------------------------------------------------------------
(* Vocabulary of the properties *)

Last(t) == t[Len(t)]

Finished == outcome # "running"

\* positions of the remote calls in the trace
CallIdx == {i \in DOMAIN trace : trace[i].ev = "call"}

\* positions of the remote calls that failed
FailedIdx == {i \in CallIdx : ~trace[i].res.ok}

\* positions of the remote calls that failed with a client error
ClientErrorIdx == {i \in FailedIdx : trace[i].res \in ClientErrors}

\* the last remote call made so far
LastCall == trace[CHOOSE i \in CallIdx : \A j \in CallIdx : j <= i]

\* the lines written so far
Lines == {out[i] : i \in DOMAIN out}

\* the polling wrappers whose loop tests a status against fixed values
StatusPollers ==
    {"create_dataset", "create_dataset_from_existing_dataset",
     "update_dataset_entries", "stop_model"}

DescribeOp(f) ==
    IF f \in {"stop_model", "copy_model", "delete_model"} THEN "describe_project_versions"
    ELSE IF f = "delete_project" THEN "describe_projects"
    ELSE IF f \in {"flow.prepare_flow", "prepare_flow.prepare_flow"} THEN "get_flow"
    ELSE "describe_dataset"

InProgressOf(f) ==
    IF f \in {"update_dataset_entries", "distribute_dataset_entries"} THEN "UPDATE_IN_PROGRESS"
    ELSE IF f = "stop_model" THEN "STOPPING"
    ELSE IF f = "copy_model" THEN "COPYING_IN_PROGRESS"
    ELSE "CREATE_IN_PROGRESS"

CompleteOf(f) ==
    IF f = "update_dataset_entries" THEN "UPDATE_COMPLETE"
    ELSE IF f = "stop_model" THEN "STOPPED"
    ELSE "CREATE_COMPLETE"

\* positions of the describe calls that answered with a status
DescribedIdx(f) ==
    {i \in CallIdx : /\ trace[i].op = DescribeOp(f)
                     /\ trace[i].res.ok
                     /\ trace[i].res.val # NoDescriptions}

----------------------------------------------------------------------------
(* C1 *)

\* C1: a status-polling wrapper returns normally only after the last describe
\* call answered the 'complete' status: create_dataset and
\* create_dataset_from_existing_dataset return the dataset ARN of the create
\* call only after CREATE_COMPLETE, update_dataset_entries returns only with
\* UPDATE_COMPLETE, stop_model returns only STOPPED.
C1_ReturnsOnlyAfterComplete ==
    (fn \in StatusPollers /\ outcome = "returned") =>
        /\ Len(trace) >= 2
        /\ Last(trace).op = DescribeOp(fn)
        /\ Last(trace).res.ok
        /\ Last(trace).res.val = CompleteOf(fn)
        /\ fn \in {"create_dataset", "create_dataset_from_existing_dataset"}
              => Untag(ret) = trace[1].res.val
        /\ fn = "update_dataset_entries" => Untag(ret)[1] = "UPDATE_COMPLETE"
        /\ fn = "stop_model" => Untag(ret) = "STOPPED"

\* create_dataset returned after the service reported in-progress twice
C1_Witness ==
    /\ fn = "create_dataset"
    /\ outcome = "returned"
    /\ Untag(ret) \in DatasetArns
    /\ Len(trace) >= 6

----------------------------------------------------------------------------
(* C2 *)

\* C2: in the dataset create/update loops and in stop_model a describe answer
\* with the failed status, or with any status that is neither the in-progress
\* nor the complete value, makes the wrapper raise a generic error, and that
\* describe call is the last remote call of the invocation.
C2_FailedStatusIsFatal ==
    fn \in StatusPollers =>
        \A i \in DescribedIdx(fn) :
            trace[i].res.val \notin {InProgressOf(fn), CompleteOf(fn)} =>
                /\ i = Len(trace)
                /\ outcome = "raised"
                /\ exc.type = "Exception"

\* update_dataset_entries raised after in-progress answers and UPDATE_FAILED
C2_Witness ==
    /\ fn = "update_dataset_entries"
    /\ outcome = "raised"
    /\ exc.type = "Exception"
    /\ status = "UPDATE_FAILED"
    /\ Len(trace) >= 4

----------------------------------------------------------------------------
(* C3 *)

----------------------------------------------------------------------------
(* C4 *)

----------------------------------------------------------------------------
(* C5 *)

\* every wrapper with a polling loop
Pollers ==
    StatusPollers \cup
    {"copy_model", "distribute_dataset_entries", "delete_model",
     "delete_project", "delete_dataset", "flow.prepare_flow",
     "prepare_flow.prepare_flow"}

PrepareFns == {"flow.prepare_flow", "prepare_flow.prepare_flow"}

\* C5: when the service stops answering 'in progress' (for the delete loops:
\* 'still present') after finitely many describe calls, every polling wrapper
\* eventually returns or raises, and from then on it takes no further step,
\* so it makes no further describe call.
C5_PollingTerminates ==
    <>[](fn \in Pollers => (Finished /\ ~ENABLED Next))

\* delete_model finished after the service reported the model present as
\* often as it may
C5_Witness ==
    /\ fn = "delete_model"
    /\ Finished
    /\ budget = 0
    /\ Len(trace) = 2 * MaxPolls + 2

----------------------------------------------------------------------------
(* C6 *)

\* the answer of the call e keeps the loop of f going
InProgressAnswer(f, e) ==
    /\ e.res.ok
    /\ IF f \in PrepareFns THEN e.res.val.status = "Preparing"
       ELSE IF f \in {"delete_model", "delete_project"} THEN e.res.val # NoDescriptions
       ELSE IF f = "delete_dataset" THEN TRUE
       ELSE e.res.val = InProgressOf(f)

\* the request succeeded and every describe answer so far kept the loop going
AllInProgress ==
    /\ fn \in Pollers
    /\ trace # <<>>
    /\ trace[1].res.ok
    /\ \A i \in CallIdx : (i > 1 \/ fn \in PrepareFns) => InProgressAnswer(fn, trace[i])

\* C6: no polling loop gives up: as long as every describe answer so far
\* reported 'in progress' ('still present' for the delete loops), however
\* many there were, the wrapper has neither returned nor raised, stands at
\* its describe call and makes it.
C6_NoMaximumRetryCount ==
    AllInProgress =>
        /\ outcome = "running"
        /\ pc \in {"poll", "poll_training"}
        /\ ENABLED Next

\* delete_dataset after MaxPolls describe calls that all found the dataset
C6_Witness ==
    /\ fn = "delete_dataset"
    /\ AllInProgress
    /\ budget = 0
    /\ Len(trace) = 2 * MaxPolls + 1

----------------------------------------------------------------------------
(* C7 *)

PropagatingFns ==
    {"create_flow", "flow.prepare_flow", "get_flow", "delete_flow",
     "create_flow_alias", "delete_flow_alias", "invoke_agent_with_file"}

----------------------------------------------------------------------------
(* C8 *)

ErrorChannels == {"logger.exception", "logging.exception", "logger.error", "print"}

\* C8 as claimed: every wrapper that catches a client error logs it (a print
\* is counted as a log line here) and raises it again; none returns normally
\* after a client error, prepare_flow of prepare_flow.py and
\* run_playlist_flow included.
C8_EveryWrapperReraises ==
    \A i \in ClientErrorIdx :
        /\ outcome = "raised"
        /\ exc = [type |-> "ClientError", code |-> trace[i].res.code, msg |-> trace[i].res.msg]
        /\ \E l \in Lines : l.ch \in ErrorChannels

\* the wrappers that end normally after a client error
Swallowers == {"prepare_flow.prepare_flow", "run_playlist_flow", "chat_with_agent"}

\* C8 amended: a wrapper that catches a client error reports it (by a log
\* line or a print) and raises it again unchanged, with four exceptions:
\* prepare_flow of prepare_flow.py prints a message and returns None,
\* run_playlist_flow prints and logs the error and returns None,
\* chat_with_agent prints the message and leaves its loop, returning None,
\* and delete_dataset takes ResourceNotFoundException from describe_dataset
\* for the end of the deletion and returns True.
C8_ReraiseExceptSwallowers ==
    \A i \in ClientErrorIdx :
        IF fn = "prepare_flow.prepare_flow"
          THEN /\ outcome = "returned"
               /\ Untag(ret) = PyNone
               /\ Last(out) = Line("print", prepare_flow_py_except(trace[i].res.code))
        ELSE IF fn = "run_playlist_flow"
          THEN /\ outcome = "returned"
               /\ Untag(ret) = PyNone
               /\ Line("print", "Client error") \in Lines
               /\ Last(out) = Line("logger.error", "Client error")
        ELSE IF fn = "chat_with_agent"
          THEN /\ outcome = "returned"
               /\ Untag(ret) = PyNone
               /\ Last(out) = Line("print", "Error occurred")
        ELSE IF /\ fn = "delete_dataset"
                /\ trace[i].op = "describe_dataset"
                /\ trace[i].res.code = "ResourceNotFoundException"
          THEN /\ outcome = "returned"
               /\ Untag(ret) = TRUE
        ELSE /\ outcome = "raised"
             /\ exc = [type |-> "ClientError", code |-> trace[i].res.code, msg |-> trace[i].res.msg]
             /\ out # <<>>
             /\ Last(out).ch \in ErrorChannels

\* prepare_flow of prepare_flow.py returned None after GetFlow failed
C8_Witness ==
    /\ fn = "prepare_flow.prepare_flow"
    /\ outcome = "returned"
    /\ Len(trace) >= 3
    /\ Last(trace).op = "get_flow"
    /\ ~Last(trace).res.ok
    /\ Untag(ret) = PyNone

----------------------------------------------------------------------------
(* C9 *)

\* C9: in every wrapper, once a remote call of the invocation has failed, the
\* invocation makes no further remote call, wherever in the call sequence the
\* failure occurs.
C9_NoCallAfterFailure ==
    \A i \in FailedIdx : \A j \in CallIdx : j <= i

\* delete_flow_role stopped at the failure of its third remote call
C9_Witness ==
    /\ fn = "delete_flow_role"
    /\ Finished
    /\ Len(trace) = 3
    /\ FailedIdx = {3}

----------------------------------------------------------------------------
(* C10 *)

\* C10: prepare_flow of flow.py calls PrepareFlow once and first, then only
\* GetFlow; every call that is followed by another one reported "Preparing";
\* while it runs the last reported status is "Preparing"; it returns the
\* status of its last call, which is the first one that is not "Preparing".
\* So GetFlow is never called when PrepareFlow reports another status.
C10_PrepareFlowPolling ==
    (fn = "flow.prepare_flow" /\ trace # <<>>) =>
        /\ trace[1].ev = "call"
        /\ trace[1].op = "prepare_flow"
        /\ \A i \in CallIdx : i > 1 => trace[i].op = "get_flow"
        /\ \A i \in CallIdx :
              (\E j \in CallIdx : j > i) =>
                  (trace[i].res.ok /\ trace[i].res.val.status = "Preparing")
        /\ outcome = "running" =>
              (LastCall.res.ok /\ LastCall.res.val.status = "Preparing")
        /\ outcome = "returned" =>
              /\ LastCall.res.ok
              /\ Untag(ret) = LastCall.res.val.status
              /\ Untag(ret) # "Preparing"

\* prepare_flow returned "Prepared" after PrepareFlow and two GetFlow calls
C10_Witness ==
    /\ fn = "flow.prepare_flow"
    /\ outcome = "returned"
    /\ Untag(ret) = "Prepared"
    /\ Cardinality(CallIdx) = 3

----------------------------------------------------------------------------
(* C11 *)

\* the completion stream that InvokeAgent answered with
AnsweredStream == LastCall.res.val

\* the chunks the code handles as text: the chunk events that carry bytes
TextChunks(s) == SelectSeq(s, LAMBDA e : e.hasChunk /\ e.hasBytes)

AllDecodable(s) == \A i \in DOMAIN s : (s[i].hasChunk /\ s[i].hasBytes) => Decodable(s[i].bytes)

RECURSIVE ConcatDecoded(_)
ConcatDecoded(chunks) ==
    IF chunks = <<>> THEN <<>>
    ELSE decode(Head(chunks).bytes) \o ConcatDecoded(Tail(chunks))

\* no "files" event of the stream carries a file with content
NoGeneratedImage(s) ==
    \A i \in DOMAIN s : s[i].hasFiles =>
        \A j \in DOMAIN s[i].files : s[i].files[j].bytes = <<>>

----------------------------------------------------------------------------
(* C12 *)

\* the chunk events of s that carry bytes together with contentType image/png
ImageChunkIdx(s) ==
    {i \in DOMAIN s : s[i].hasChunk /\ s[i].hasBytes /\ s[i].contentType = "image/png"}

\* the chunk events of s that carry bytes and no content type
PlainTextChunks(s) ==
    SelectSeq(s, LAMBDA e : e.hasChunk /\ e.hasBytes /\ e.contentType = NoValue)

\* C12: when the answered stream holds a chunk with bytes and contentType
\* image/png (and its other chunks decode), invoke_agent_with_file returns
\* that chunk as an entry of images, data equal to the chunk's bytes and
\* content_type image/png, and the text is the text chunks only.
C12_ImageChunkReturnedAsImage ==
    (/\ fn = "invoke_agent_with_file" /\ CallIdx # {} /\ LastCall.res.ok
     /\ ImageChunkIdx(AnsweredStream) # {}
     /\ AllDecodable(PlainTextChunks(AnsweredStream))) =>
        /\ outcome = "returned"
        /\ \A i \in ImageChunkIdx(AnsweredStream) :
              \E k \in DOMAIN Untag(ret).images :
                 Untag(ret).images[k] = [data |-> AnsweredStream[i].bytes, content_type |-> "image/png"]
        /\ Untag(ret).text = ConcatDecoded(PlainTextChunks(AnsweredStream))

----------------------------------------------------------------------------
(* C13 *)

\* the extension of a path as the claim describes it: the shortest suffix of
\* the base name that starts with "." and has a character other than "."
\* somewhere before it, lower-cased; empty when there is none
SuffixesWithDot(name) ==
    {k \in DOMAIN name : name[k] = "." /\ (\E i \in 1..(k - 1) : name[i] # ".")
                          /\ (\A j \in (k + 1)..Len(name) : name[j] # ".")}

BaseNameOf(path) ==
    LET n == Len(path)
        start == CHOOSE k \in 1..(n + 1) :
                    /\ \A j \in k..n : path[j] # "/"
                    /\ (k > 1 => path[k - 1] = "/")
    IN  [i \in 1..(n + 1 - start) |-> path[start + i - 1]]

ExtensionOf(path) ==
    LET name == BaseNameOf(path) IN
    IF SuffixesWithDot(name) = {} THEN <<>>
    ELSE LET k == CHOOSE k \in SuffixesWithDot(name) : TRUE IN
         str_lower([i \in 1..(Len(name) + 1 - k) |-> name[k + i - 1]])

\* the media type the claim fixes for an extension
MediaTypeOf(ext) ==
    CASE ext = <<".", "c", "s", "v">> -> "text/csv"
      [] ext = <<".", "j", "s", "o", "n">> -> "application/json"
      [] ext = <<".", "p", "y">> -> "text/x-python"
      [] ext = <<".", "p", "n", "g">> -> "image/png"
      [] ext = <<".", "t", "x", "t">> -> "text/plain"
      [] ext \in {<<".", "j", "p", "g">>, <<".", "j", "p", "e", "g">>} -> "image/jpeg"
      [] ext = <<".", "x", "l", "s", "x">> ->
            "application/vnd.openxmlformats-officedocument.spreadsheetml.sheet"
      [] ext = <<".", "x", "l", "s">> -> "application/vnd.ms-excel"
      [] ext = <<".", "p", "d", "f">> -> "application/pdf"
      [] OTHER -> "application/octet-stream"

\* C13: the mediaType of the InvokeAgent request that invoke_agent_with_file
\* sends is the fixed media type of the lower-cased extension of the base
\* name of the file path, application/octet-stream for an extension that is
\* not in the table, and the file is sent under its base name.
C13_MediaTypeFromExtension ==
    (fn = "invoke_agent_with_file" /\ CallIdx # {}) =>
        /\ LastCall.arg.mediaType = MediaTypeOf(ExtensionOf(LastCall.arg.path))
        /\ LastCall.arg.name = BaseNameOf(LastCall.arg.path)

\* "t.d/R.JSON" was sent as application/json
C13_Witness ==
    /\ fn = "invoke_agent_with_file"
    /\ CallIdx # {}
    /\ LastCall.arg.path = <<"t", ".", "d", "/", "R", ".", "J", "S", "O", "N">>
    /\ LastCall.arg.name = <<"R", ".", "J", "S", "O", "N">>
    /\ LastCall.arg.mediaType = "application/json"

----------------------------------------------------------------------------
(* C14 *)

----------------------------------------------------------------------------
(* C15 *)

----------------------------------------------------------------------------
(* C16 *)

\* the wrapper raised the generic error of a failed or unrecognized status
StatusFailure ==
    /\ exc.type = "Exception"
    /\ exc.msg \in {"Dataset creation failed",
                    "Failed. Unexpected state for dataset creation",
                    "Dataset update failed",
                    "Failed. Unexpected state for dataset update",
                    "Error stopping model. Unexepected state"}

\* C16 as stated: when the polling wrapper that a main calls raises, a client
\* error or the generic error of a failed or unrecognized status alike, main
\* prints a message and ends normally: the exception never leaves main.
C16_MainHandlesEveryFailure ==
    (/\ fn \in MainFns /\ main_outcome # "none" /\ outcome = "raised"
     /\ (exc.type = "ClientError" \/ StatusFailure)) =>
        /\ main_outcome = "ended"
        /\ Last(out).ch = "print"

----------------------------------------------------------------------------
(* C17 *)

\* the argument of time.sleep in the polling loop of the wrapper
SleepSeconds(f) ==
    IF f = "stop_model" THEN 10
    ELSE IF f = "copy_model" THEN 60
    ELSE 5

\* positions of the status checks of the polling loop, failed ones included
PollIdx(f) == {i \in CallIdx : trace[i].op = DescribeOp(f)}

\* two status checks of the same loop with no status check between them
ConsecutivePolls(f, i, j) ==
    /\ i < j
    /\ trace[i].arg = trace[j].arg
    /\ \A k \in PollIdx(f) : ~(i < k /\ k < j)

\* C17: in a polling wrapper, between any two consecutive describe calls of
\* one loop the trace holds exactly one event, a sleep, and every sleep of the
\* invocation has the one duration of the script (10 seconds in stop_model,
\* 60 in copy_model, 5 elsewhere), whatever the number of polls before it.
C17_OneFixedSleepBetweenPolls ==
    fn \in Pollers =>
        /\ \A i \in PollIdx(fn) : \A j \in PollIdx(fn) :
              ConsecutivePolls(fn, i, j) =>
                  /\ j = i + 2
                  /\ trace[i + 1].ev = "sleep"
                  /\ trace[i + 1].dur = SleepSeconds(fn)
        /\ \A i \in DOMAIN trace :
              trace[i].ev = "sleep" => trace[i].dur = SleepSeconds(fn)

\* copy_model returned after three describe calls with two sleeps of 60 seconds
C17_Witness ==
    /\ fn = "copy_model"
    /\ outcome = "returned"
    /\ Cardinality(PollIdx(fn)) = 3
    /\ Cardinality({i \in DOMAIN trace : trace[i].ev = "sleep" /\ trace[i].dur = 60}) = 2

----------------------------------------------------------------------------
(* C18 *)

\* C18: once create_dataset, create_dataset_from_existing_dataset or
\* update_dataset_entries is past building its request, it has made its first
\* remote call, whose DatasetSource (or Changes) holds exactly the texts the
\* caller passed: Bucket the bucket and Name the manifest file, DatasetArn
\* the ARN, GroundTruth the text of the updates file, whatever characters
\* they contain.
C18_RequestBuiltFromInputs ==
    /\ (fn = "create_dataset" /\ pc # "start") =>
          /\ CallIdx # {}
          /\ trace[1].arg.DatasetSource =
                [GroundTruthManifest |->
                    [S3Object |-> [Bucket |-> args.bucket, Name |-> args.manifest_file]]]
    /\ (fn = "create_dataset_from_existing_dataset" /\ pc # "start") =>
          /\ CallIdx # {}
          /\ trace[1].arg.DatasetSource = [DatasetArn |-> args.dataset_arn]
    /\ (fn = "update_dataset_entries" /\ pc # "start") =>
          /\ CallIdx # {}
          /\ trace[1].arg.Changes = [GroundTruth |-> args.updates]

----------------------------------------------------------------------------
(* C19 *)

\* positions of the remote calls before the last one
EarlierCalls == {i \in CallIdx : \E j \in CallIdx : i < j}

\* C19: prepare_flow of prepare_flow.py never raises.  When it has finished
\* and every remote call it made was answered, it returns the response of the
\* last call, whose status is not "Preparing" while the status of every
\* earlier response is, the first call being PrepareFlow and the others
\* GetFlow; when the client could not be created or a call failed, with a
\* client error or with any other error, it returns None.
C19_PrepareFlowNeverRaises ==
    fn = "prepare_flow.prepare_flow" =>
        /\ outcome # "raised"
        /\ Finished =>
              IF CallIdx # {} /\ FailedIdx = {}
                THEN /\ ret = Rec(LastCall.res.val)
                     /\ LastCall.res.val.status # "Preparing"
                     /\ \A i \in EarlierCalls : trace[i].res.val.status = "Preparing"
                     /\ \A i \in CallIdx :
                           trace[i].op = IF i = 1 THEN "prepare_flow" ELSE "get_flow"
                ELSE ret = Str(PyNone)

\* the connection failed on the second GetFlow call and None was returned
C19_Witness ==
    /\ fn = "prepare_flow.prepare_flow"
    /\ outcome = "returned"
    /\ Cardinality(CallIdx) = 3
    /\ LastCall.op = "get_flow"
    /\ LastCall.res \in UnexpectedErrors
    /\ ret = Str(PyNone)

----------------------------------------------------------------------------
(* C20 *)

\* the policy names that ListRolePolicies returned
ListedPolicies == trace[1].res.val

\* positions of the DeleteRole calls
DeleteRoleIdx == {i \in CallIdx : trace[i].op = "delete_role"}

\* C20: in delete_flow_role a DeleteRole call is the call that follows a
\* successful ListRolePolicies call and one successful DeleteRolePolicy call
\* for each listed policy name, in the listed order; when ListRolePolicies or
\* a DeleteRolePolicy call failed, no DeleteRole call was made and the
\* wrapper raised that error.
C20_RoleDeletedAfterItsPolicies ==
    fn = "delete_flow_role" =>
        /\ \A k \in DeleteRoleIdx :
              /\ trace[1].op = "list_role_policies"
              /\ trace[1].res.ok
              /\ k = Len(ListedPolicies) + 2
              /\ \A n \in 1..Len(ListedPolicies) :
                    /\ trace[n + 1].op = "delete_role_policy"
                    /\ trace[n + 1].res.ok
                    /\ trace[n + 1].arg.PolicyName = ListedPolicies[n]
        /\ \A i \in FailedIdx :
              trace[i].op \in {"list_role_policies", "delete_role_policy"} =>
                  /\ DeleteRoleIdx = {}
                  /\ outcome = "raised"
                  /\ exc = ClientError(trace[i].res)

\* the role was deleted after its two policies
C20_Witness ==
    /\ fn = "delete_flow_role"
    /\ outcome = "returned"
    /\ Len(trace) = 4
    /\ Len(ListedPolicies) = 2
    /\ DeleteRoleIdx = {4}

----------------------------------------------------------------------------
(* C21 *)

\* the lines typed at the prompt so far, in order
TypedLines == SelectSeq(out, LAMBDA l : l.ch = "input")

\* the word quit in some letter case
IsQuit(t) == t \in {"quit", "Quit", "QUIT"}

QuitTyped == \E i \in DOMAIN TypedLines : IsQuit(TypedLines[i].text)

\* the chunks of the last response all carry bytes that decode
LastResponseComplete ==
    /\ CallIdx # {}
    /\ LastCall.res.ok
    /\ \A i \in DOMAIN LastCall.res.val :
          LastCall.res.val[i].hasChunk =>
              (LastCall.res.val[i].hasBytes /\ Decodable(LastCall.res.val[i].bytes))

\* C21: in chat_with_agent every remote call is invoke_agent with the session
\* id generated at the start; a typed line that is quit in some letter case
\* is never sent and ends the loop, every other typed line is sent once; only
\* the last call can have failed, and a failed call ends the loop; after a
\* response that was printed completely the loop is still running, waiting
\* for the next line, unless quit was typed.
C21_OneSessionUntilQuitOrError ==
    fn = "chat_with_agent" =>
        /\ \A i \in CallIdx :
              /\ trace[i].op = "invoke_agent"
              /\ trace[i].arg.sessionId = Untag(local)
              /\ ~IsQuit(trace[i].arg.inputText)
        /\ Cardinality(CallIdx) =
              Cardinality({i \in DOMAIN TypedLines : ~IsQuit(TypedLines[i].text)})
        /\ QuitTyped =>
              /\ outcome = "returned"
              /\ IsQuit(TypedLines[Len(TypedLines)].text)
              /\ \A i \in 1..(Len(TypedLines) - 1) : ~IsQuit(TypedLines[i].text)
        /\ \A i \in FailedIdx :
              /\ \A j \in CallIdx : j <= i
              /\ outcome = "returned"
              /\ ~QuitTyped
        /\ (LastResponseComplete /\ ~QuitTyped) => outcome = "running"
        /\ outcome = "returned" => (QuitTyped \/ FailedIdx # {})

\* two lines were sent in one session, then QUIT ended the chat
C21_Witness ==
    /\ fn = "chat_with_agent"
    /\ outcome = "returned"
    /\ Cardinality(CallIdx) = 2
    /\ Len(TypedLines) = 3
    /\ TypedLines[3].text = "QUIT"
    /\ trace[1].arg.sessionId = trace[2].arg.sessionId

----------------------------------------------------------------------------
(* C22 *)

\* positions of the describe_dataset calls
DescribeDatasetIdx == {i \in CallIdx : trace[i].op = "describe_dataset"}

\* C22: delete_dataset returns, and then True, only when its last call was a
\* describe_dataset call that failed with ResourceNotFoundException; a
\* describe_dataset call that failed with another code is its last call and
\* leaves it raised with that error; a describe_dataset call that succeeded
\* is followed by a sleep of 5 seconds and then by another describe_dataset
\* call, for which the wrapper is still running as long as it was not made.
C22_DeletedOnlyWhenNotFound ==
    fn = "delete_dataset" =>
        /\ outcome = "returned" =>
              /\ ret = Bool(TRUE)
              /\ LastCall.op = "describe_dataset"
              /\ ~LastCall.res.ok
              /\ LastCall.res.code = "ResourceNotFoundException"
        /\ \A i \in DescribeDatasetIdx :
              IF trace[i].res.ok
                THEN /\ i + 1 \in DOMAIN trace
                     /\ trace[i + 1].ev = "sleep"
                     /\ trace[i + 1].dur = 5
                     /\ IF i + 2 \in DOMAIN trace
                          THEN i + 2 \in DescribeDatasetIdx
                          ELSE outcome = "running" /\ pc = "poll"
                ELSE /\ i = Len(trace)
                     /\ trace[i].res.code # "ResourceNotFoundException" =>
                           /\ outcome = "raised"
                           /\ exc = ClientError(trace[i].res)

\* the dataset was still there twice, then it was gone
C22_Witness ==
    /\ fn = "delete_dataset"
    /\ outcome = "returned"
    /\ ret = Bool(TRUE)
    /\ Cardinality(DescribeDatasetIdx) = 3
    /\ Cardinality({i \in DescribeDatasetIdx : trace[i].res.ok}) = 2

----------------------------------------------------------------------------
(* C23 *)

\* positions of the describe calls of the wait loop of delete_model and of
\* delete_project
DescribeDeletedIdx == {i \in CallIdx : trace[i].op = DescribeOp(fn)}

\* what the describe call of the wait loop has to ask for
DescribeDeletedRequest ==
    IF fn = "delete_model"
      THEN [ProjectArn |-> input, VersionNames |-> <<args.version_name>>]
      ELSE [ProjectNames |-> <<args.project_name>>]

\* C23: delete_model and delete_project return, and then True, only when
\* their last call was a describe call (describe_project_versions for the
\* version name inside the model ARN, describe_projects for the project name
\* inside the project ARN) that answered an empty list of descriptions; every
\* describe call asks for exactly that name; a describe call that answered a
\* description, whatever its status, is followed by a sleep of 5 seconds and
\* then by another describe call, for which the wrapper is still running as
\* long as it was not made.
C23_DeletedOnlyWhenNotListed ==
    fn \in {"delete_model", "delete_project"} =>
        /\ outcome = "returned" =>
              /\ ret = Bool(TRUE)
              /\ LastCall.op = DescribeOp(fn)
              /\ LastCall.res.ok
              /\ LastCall.res.val = NoDescriptions
        /\ \A i \in DescribeDeletedIdx :
              /\ trace[i].arg = DescribeDeletedRequest
              /\ (trace[i].res.ok /\ trace[i].res.val # NoDescriptions) =>
                    /\ i + 1 \in DOMAIN trace
                    /\ trace[i + 1].ev = "sleep"
                    /\ trace[i + 1].dur = 5
                    /\ IF i + 2 \in DOMAIN trace
                         THEN i + 2 \in DescribeDeletedIdx
                         ELSE outcome = "running" /\ pc = "poll"

\* the model named "version" of the project "myversion" was listed as RUNNING,
\* then as DELETING, then no longer
C23_Witness ==
    /\ fn = "delete_model"
    /\ args.project_name = <<"m", "y", "v", "e", "r", "s", "i", "o", "n">>
    /\ args.version_name = <<"v", "e", "r", "s", "i", "o", "n">>
    /\ outcome = "returned"
    /\ ret = Bool(TRUE)
    /\ \E i, j \in DescribeDeletedIdx :
          /\ i < j
          /\ trace[i].res.ok /\ trace[i].res.val = "RUNNING"
          /\ trace[j].res.ok /\ trace[j].res.val = "DELETING"

----------------------------------------------------------------------------
(* C27 *)

\* positions of the describe_project_versions calls
DescribeProjectVersionsIdx == {i \in CallIdx : trace[i].op = "describe_project_versions"}

\* C27: for a model ARN <prefix>:project/<project>/version/<version>/<timestamp>
\* the slice of delete_model between the 3rd and the 4th "/" and the
\* split("version/", 1)[1].rpartition('/')[0] of start_model and stop_model
\* give the same text, which is <version>: every describe_project_versions
\* call of delete_model, stop_model and start_model asks for <version>.
C27_VersionNameExtractionsAgree ==
    fn \in {"delete_model", "stop_model", "start_model"} =>
        \A i \in DescribeProjectVersionsIdx :
            /\ trace[i].arg.VersionNames = <<args.version_name>>
            /\ delete_model_version_name(ModelArn(args.project_name, args.version_name))
                  = get_model_status_version_name(ModelArn(args.project_name, args.version_name))

----------------------------------------------------------------------------
(* C24 *)

\* the wrappers that ask the service for a change and then wait for it
ChangeWrappers ==
    {"create_dataset", "create_dataset_from_existing_dataset", "update_dataset_entries",
     "delete_dataset", "delete_model", "delete_project", "stop_model", "copy_model",
     "flow.prepare_flow", "prepare_flow.prepare_flow"}

\* the request of the wrapper f that changes the state of the service
ChangeOp(f) ==
    IF f \in {"create_dataset", "create_dataset_from_existing_dataset"} THEN "create_dataset"
    ELSE IF f = "delete_model" THEN "delete_project_version"
    ELSE IF f = "stop_model" THEN "stop_project_version"
    ELSE IF f = "copy_model" THEN "copy_project_version"
    ELSE IF f \in {"flow.prepare_flow", "prepare_flow.prepare_flow"} THEN "prepare_flow"
    ELSE f

\* positions of the state-changing request in the trace
ChangeIdx == {i \in CallIdx : trace[i].op = ChangeOp(fn)}

\* C24 as stated: an invocation that ended has issued the state-changing
\* request exactly once, as its first remote call.
C24_RequestIssuedExactlyOnce ==
    (fn \in ChangeWrappers /\ Finished) => ChangeIdx = {1}

\* C24, amended: the state-changing request is issued at most once; when the
\* wrapper made any remote call, the request is the first of them, so it is
\* before every describe call and no poll re-issues it; a wrapper that
\* returned a value other than None has issued it.  (An invocation that fails
\* before the request, on the text of its arguments or on creating its
\* client, makes no remote call at all.)
C24_RequestIssuedOnceFirst ==
    fn \in ChangeWrappers =>
        /\ Cardinality(ChangeIdx) <= 1
        /\ CallIdx # {} => ChangeIdx = {1}
        /\ (outcome = "returned" /\ ret # Str(PyNone)) => ChangeIdx = {1}

\* stop_model polled as often as it may and the one stop request is first
C24_Witness ==
    /\ fn = "stop_model"
    /\ Finished
    /\ budget = 0
    /\ ChangeIdx = {1}
    /\ Cardinality(DescribeProjectVersionsIdx) = MaxPolls + 1

----------------------------------------------------------------------------
(* C25 *)

\* positions of the distribute request
DistributeIdx == {i \in CallIdx : trace[i].op = "distribute_dataset_entries"}

\* positions of the describe_dataset calls for the dataset `arn`
DescribeArnIdx(arn) ==
    {i \in CallIdx : trace[i].op = "describe_dataset" /\ trace[i].arg = arn}

\* positions of the describe_dataset calls for `arn` that ended its polling
FinalIdx(arn) ==
    {i \in DescribeArnIdx(arn) : trace[i].res.ok /\ trace[i].res.val # "UPDATE_IN_PROGRESS"}

\* the status that ended the polling of `arn`
FinalStatus(arn) == trace[CHOOSE i \in FinalIdx(arn) : TRUE].res.val

\* the printed lines that begin with `head` and name the status s
StatusLines(head, s) ==
    {Line("print", head \o s \o " : " \o m) :
        m \in StatusMessages \cup {"An unexpected error occurred while distributing the dataset"}}

\* the lines printed so far, in order
Printed == SelectSeq(out, LAMBDA l : l.ch = "print")

----------------------------------------------------------------------------
(* C26 *)

ListFns == {"list_project_policies", "list_dataset_entries"}

\* the remote calls made so far, in order
Calls == SelectSeq(trace, LAMBDA e : e.ev = "call")

\* what displaying the items of the answered pages prints, page after page
RECURSIVE DisplayedPages(_)
DisplayedPages(calls) ==
    IF calls = <<>> THEN <<>>
    ELSE (IF ~Head(calls).res.ok THEN <<>>
          ELSE IF fn = "list_project_policies"
            THEN display_project_policies(Head(calls).res.val.Items)
            ELSE print_entries(Head(calls).res.val.Items))
         \o DisplayedPages(Tail(calls))

\* the number of items on the answered pages
RECURSIVE SumOfPageSizes(_)
SumOfPageSizes(calls) ==
    IF calls = <<>> THEN 0
    ELSE (IF Head(calls).res.ok THEN Len(Head(calls).res.val.Items) ELSE 0)
         + SumOfPageSizes(Tail(calls))

\* C26: list_project_policies and list_dataset_entries send an empty
\* NextToken on their first request and, on every later request, the
\* NextToken of the response just before it, which was a successful response
\* carrying one; after a response without NextToken they have returned and
\* after a response with one they are still going to ask again; the printed
\* lines are, after the heading of list_project_policies, exactly the items
\* of the answered pages, each once, page after page and in the order of the
\* page; the total list_dataset_entries logs at the end is the sum of the
\* page sizes.
C26_PaginationFollowsNextToken ==
    fn \in ListFns =>
        /\ \A k \in DOMAIN Calls :
              /\ Calls[k].op = fn
              /\ IF k = 1
                   THEN Calls[k].arg.NextToken = ""
                   ELSE /\ Calls[k - 1].res.ok
                        /\ Calls[k - 1].res.val.NextToken # NoToken
                        /\ Calls[k].arg.NextToken = Calls[k - 1].res.val.NextToken
        /\ IF Calls = <<>>
             THEN outcome = "running"
             ELSE IF ~Last(Calls).res.ok
               THEN outcome = "raised" /\ exc = ClientError(Last(Calls).res)
             ELSE IF Last(Calls).res.val.NextToken = NoToken
               THEN outcome = "returned"
             ELSE outcome = "running"
        /\ Printed = (IF fn = "list_project_policies" /\ Calls # <<>>
                        THEN <<Line("print", "Projects\n--------")>> ELSE <<>>)
                     \o DisplayedPages(Calls)
        /\ (fn = "list_dataset_entries" /\ outcome = "returned") =>
              /\ Last(out) = Line("logger.info",
                                  "No more entries. Total:" \o ToString(SumOfPageSizes(Calls)))
              /\ Untag(local).count = SumOfPageSizes(Calls)

\* list_dataset_entries read three pages of 2, 1 and 2 entries, following the
\* tokens t1 and t2
C26_Witness ==
    /\ fn = "list_dataset_entries"
    /\ outcome = "returned"
    /\ Len(Calls) = 3
    /\ Calls[1].res.val.NextToken = "t1"
    /\ Calls[2].res.val.NextToken = "t2"
    /\ Calls[3].arg.NextToken = "t2"
    /\ Untag(local).count = 5
    /\ Len(Printed) = 5

----------------------------------------------------------------------------
(* C28 *)

\* the main functions that ask before they delete
ConfirmingMains == {"delete_model.main", "delete_project_policy.main"}

\* the message of main when the deletion was not confirmed
NotDeleting ==
    IF fn = "delete_model.main" THEN Line("print", "Not deleting model")
    ELSE Line("print", "Not deleting project policy")

\* C28: main of custom_labels_delete_model.py and of
\* custom_labels_copy_model_delete_project_policy.py makes a remote call only
\* after the text entered at the prompt was exactly "delete"; after any other
\* text it has made no remote call, its last line is the 'Not deleting'
\* message and it has ended; the 'Not deleting' message is printed in no
\* other case.
C28_DeletionNeedsConfirmation ==
    fn \in ConfirmingMains =>
        /\ Len(TypedLines) <= 1
        /\ CallIdx # {} => TypedLines = <<Line("input", "delete")>>
        /\ (TypedLines # <<>> /\ TypedLines # <<Line("input", "delete")>>) =>
              /\ trace = <<>>
              /\ Last(out) = NotDeleting
              /\ main_outcome = "ended"
              /\ ~ENABLED Next
        /\ NotDeleting \in Lines => (TypedLines # <<>> /\ TypedLines # <<Line("input", "delete")>>)

\* "Delete" was typed, and main ended without a remote call
C28_Witness ==
    /\ fn = "delete_model.main"
    /\ TypedLines = <<Line("input", "Delete")>>
    /\ trace = <<>>
    /\ Last(out) = NotDeleting
    /\ main_outcome = "ended"

----------------------------------------------------------------------------
(* C29 *)

\* positions of the put_role_policy calls
PutRolePolicyIdx == {i \in CallIdx : trace[i].op = "put_role_policy"}

====
